---- MODULE Spec2Model ----
(***************************************************************************)
(* Infectious disease simulation: road network synthesis (complete graph,  *)
(* Kruskal with union-find, additional connections between leaves),        *)
(* Dijkstra shortest paths over a binary-heap priority queue, the disease  *)
(* trials and the per-person SEIRD state machine driven by the population. *)
(*                                                                         *)
(* A node is a tuple <<x, y>>.  A Python dict is a record [keys, adj] whose *)
(* keys field is the sequence of keys in insertion order (Python iterates  *)
(* dicts in insertion order) and whose adj field maps each key to its list. *)
(***************************************************************************)
EXTENDS Integers, Sequences, FiniteSets, TLC

VARIABLES
    \* ---- road network synthesis (mst.py, create_graph.py, additional_connections.py)
    map_array,          \* set of building cells <<i, j>> (row, column) of the tilemap
    additional_roads,   \* argument of MST.get_mst (None until get_mst has read it)
    graph,              \* MST.__graph: sequence of nodes in dict order (complete graph)
    edges,              \* MST.__edges
    parent,             \* MST.__parent
    rank,               \* MST.__rank
    mst,                \* the dict built by __kruskal and extended by add_connections
    edge_index,         \* position of the for loop of __kruskal in edges
    single_connection_nodes, \* list collected by add_connections
    leaf_index,         \* position of the outer for loop of add_connections
    distance,           \* the local variable distance of add_connections
    input_mst,          \* history: the dict handed to AdditionalConnections.__init__
    added,              \* history: one record per connection add_connections appended
    road_pc,            \* position of get_mst
    \* ---- shortest paths (dijkstra.py)
    dj_graph,           \* Dijkstra.__graph
    dj_distances,       \* Dijkstra.__distances
    dj_previous,        \* Dijkstra.__previous
    dj_queue,           \* Dijkstra.__queue (the __elements of the PriorityQueue)
    dj_call,            \* the last call: [start, end, path, weight, raised]; start = None before the first
    \* ---- disease and population (disease.py, person.py, population.py, initialise_people.py)
    disease,            \* the Disease object shared by all people
    people,             \* Population.__people: sequence of Person records; person_id i is people[i + 1]
    occupants,          \* Building.__occupants: [homes, offices], each location -> sequence of person ids
    route_intersections, \* Population.__route_intersections: person id -> sequence of person ids
    trial,              \* history: the last trial made on the disease, [kind, draw, result]
    active_infections,  \* history: the last call of has_active_infections, [called, result]
    last_op,            \* history of the last operation on the population: [assignments,
                        \* recover_draws, tests], every assignment to a status it made,
                        \* the number every call of recover drew (with what became of
                        \* the die trial) and every distance test of __check_interactions
    \* ---- single calls of the helpers (mst.py, additional_connections.py, dijkstra.py)
    cross_call,         \* a call of __do_edges_cross: [a1, a2, b1, b2, called, result]
    find_call,          \* history: the last call of MST.__find, [node, result, before]
    pq_call,            \* history: the last call of pop_item, [priority, before]
    \* ---- the clock and the main loop (clock.py, main.py)
    clock,              \* Clock: [day, hour, running]
    main_pc             \* the next call of the body of the loop of Main.__run_simulation

roadVars == <<map_array, additional_roads, graph, edges, parent, rank, mst, edge_index,
              single_connection_nodes, leaf_index, distance, input_mst, added, road_pc>>

dijkstraVars == <<dj_graph, dj_distances, dj_previous, dj_queue, dj_call>>

populationVars == <<disease, people, occupants, route_intersections, trial, active_infections,
                    last_op>>

callVars == <<cross_call, find_call, pq_call>>

clockVars == <<clock, main_pc>>

vars == <<roadVars, dijkstraVars, populationVars, callVars, clockVars>>

-----------------------------------------------------------------------------
(* Bounds of the model.                                                    *)

GridW == 6
GridH == 2
MaxNodes == 4
TownW == 3
MaxPeople == 2
MaxIncubationHours == 2

-----------------------------------------------------------------------------
(* Generic helpers.                                                        *)

Range(s) == {s[i] : i \in 1..Len(s)}

Contains(s, x) == \E i \in 1..Len(s) : s[i] = x

RECURSIVE RowMajor(_)
\* The cells of S in the order of the nested loops "for i in rows: for j in columns"
RowMajor(S) ==
    IF S = {} THEN <<>>
    ELSE LET m == CHOOSE p \in S : \A q \in S : p[1] < q[1] \/ (p[1] = q[1] /\ p[2] <= q[2])
         IN  <<m>> \o RowMajor(S \ {m})

\* int(math.sqrt(n)) for a non-negative integer n
Isqrt(n) == CHOOSE r \in 0..n : r * r <= n /\ (r + 1) * (r + 1) > n

Dist2(a, b) == (a[1] - b[1]) * (a[1] - b[1]) + (a[2] - b[2]) * (a[2] - b[2])

\* Python tuple comparison a < b for nodes
NodeLess(a, b) == a[1] < b[1] \/ (a[1] = b[1] /\ a[2] < b[2])

EmptyDict == [keys |-> <<>>, adj |-> <<>>]

DictHas(d, k) == Contains(d.keys, k)

\* d[k] = [] for a key that is not in the dict yet
DictInsertEmpty(d, k) ==
    [keys |-> Append(d.keys, k),
     adj  |-> [n \in Range(d.keys) \cup {k} |-> IF n = k THEN <<>> ELSE d.adj[n]]]

\* d[k].append(v)
DictAppend(d, k, v) == [d EXCEPT !.adj[k] = Append(@, v)]

-----------------------------------------------------------------------------
(* create_graph.py and MST.__init__                                        *)

Cells == {<<i, j>> : i \in 0..(GridH - 1), j \in 0..(GridW - 1)}

\* CreateGraph.make_graph: the building cells in row-major order, every point
\* adjacent to every other point (in the same order).
make_graph(m) ==
    LET points == RowMajor(m)
    IN  [keys |-> points,
         adj  |-> [p \in m |-> SelectSeq(points, LAMBDA q : q # p)]]

\* MST.__swap_coordinates: (row, column) becomes (x, y)
swap_coordinates(g) ==
    LET sw(p) == <<p[2], p[1]>>
    IN  [keys |-> [i \in 1..Len(g.keys) |-> sw(g.keys[i])],
         adj  |-> [n \in {sw(p) : p \in Range(g.keys)} |->
                      [i \in 1..Len(g.adj[sw(n)]) |-> sw(g.adj[sw(n)][i])]]]

\* MST.__calculate_weight
mst_calculate_weight(node1, node2) == Isqrt(Dist2(node1, node2))

RECURSIVE EdgesFrom(_, _)
\* the edges (weight, node, neighbour) of the nodes g.keys[i..] in dict order
EdgesFrom(g, i) ==
    IF i > Len(g.keys) THEN <<>>
    ELSE LET node == g.keys[i]
             nbs  == g.adj[node]
         IN  [k \in 1..Len(nbs) |-> <<mst_calculate_weight(node, nbs[k]), node, nbs[k]>>]
             \o EdgesFrom(g, i + 1)

\* MST.__create_edge_list
create_edge_list(g) == EdgesFrom(g, 1)

\* Python tuple comparison e < f for edges (weight, node1, node2)
EdgeLess(e, f) ==
    \/ e[1] < f[1]
    \/ e[1] = f[1] /\ NodeLess(e[2], f[2])
    \/ e[1] = f[1] /\ e[2] = f[2] /\ NodeLess(e[3], f[3])

RECURSIVE InsertSorted(_, _)
InsertSorted(e, s) ==
    IF s = <<>> THEN <<e>>
    ELSE IF EdgeLess(s[1], e) THEN <<s[1]>> \o InsertSorted(e, Tail(s))
    ELSE <<e>> \o s

\* the edge list left in enumeration order (the sort omitted)
SortEdges_omitted(s) == s

RECURSIVE InsertByWeight(_, _)
InsertByWeight(e, s) ==
    IF s = <<>> THEN <<e>>
    ELSE IF s[1][1] <= e[1] THEN <<s[1]>> \o InsertByWeight(e, Tail(s))
    ELSE <<e>> \o s

RECURSIVE SortEdges_by_weight_only(_)
\* a stable sort on the weight alone (key = the first component)
SortEdges_by_weight_only(s) ==
    IF s = <<>> THEN <<>>
    ELSE InsertByWeight(s[Len(s)], SortEdges_by_weight_only(SubSeq(s, 1, Len(s) - 1)))

RECURSIVE SortEdges(_)
\* list.sort() on the edge tuples (all tuples are distinct, so the result is unique)
SortEdges(s) == IF s = <<>> THEN <<>> ELSE InsertSorted(s[Len(s)], SortEdges(SubSeq(s, 1, Len(s) - 1)))

-----------------------------------------------------------------------------
(* Union-find and Kruskal (mst.py)                                         *)

RECURSIVE FindRoot(_, _)
\* the value MST.__find returns
FindRoot(par, node) == IF par[node] = node THEN node ELSE FindRoot(par, par[node])

RECURSIVE PathTo(_, _)
\* the nodes MST.__find visits from node up to the root (root excluded)
PathTo(par, node) == IF par[node] = node THEN {} ELSE {node} \cup PathTo(par, par[node])

\* find without the assignment to self.__parent[node]
find_no_compression(par, node) == par

\* MST.__find: the parent dict after the call (path compression)
find(par, node) ==
    LET root == FindRoot(par, node)
        path == PathTo(par, node)
    IN  [n \in DOMAIN par |-> IF n \in path THEN root ELSE par[n]]

\* MST.__union: the (parent, rank) pair after the call
union(par, rnk, node1, node2) ==
    LET p1    == find(par, node1)
        root1 == FindRoot(par, node1)
        p2    == find(p1, node2)
        root2 == FindRoot(p1, node2)
    IN  IF rnk[root1] > rnk[root2] THEN [parent |-> [p2 EXCEPT ![root2] = root1], rank |-> rnk]
        ELSE IF rnk[root1] < rnk[root2] THEN [parent |-> [p2 EXCEPT ![root1] = root2], rank |-> rnk]
        ELSE [parent |-> [p2 EXCEPT ![root2] = root1], rank |-> [rnk EXCEPT ![root1] = @ + 1]]

\* kruskal_edge without the test that the endpoints are in different sets
kruskal_edge_no_find_test(s, edge) ==
    LET weight == edge[1]
        node1  == edge[2]
        node2  == edge[3]
        u      == union(s.parent, s.rank, node1, node2)
        m1     == IF DictHas(s.mst, node1) THEN s.mst ELSE DictInsertEmpty(s.mst, node1)
        m2     == IF DictHas(m1, node2) THEN m1 ELSE DictInsertEmpty(m1, node2)
        m3     == DictAppend(m2, node1, <<node2, weight>>)
        m4     == DictAppend(m3, node2, <<node1, weight>>)
    IN  [parent |-> u.parent, rank |-> u.rank, mst |-> m4]

\* one iteration of the for loop of MST.__kruskal on the state s = [parent, rank, mst]
kruskal_edge(s, edge) ==
    LET weight == edge[1]
        node1  == edge[2]
        node2  == edge[3]
        p1     == find(s.parent, node1)
        p2     == find(p1, node2)
    IN  IF FindRoot(s.parent, node1) # FindRoot(p1, node2)
        THEN LET u  == union(p2, s.rank, node1, node2)
                 m1 == IF DictHas(s.mst, node1) THEN s.mst ELSE DictInsertEmpty(s.mst, node1)
                 m2 == IF DictHas(m1, node2) THEN m1 ELSE DictInsertEmpty(m1, node2)
                 m3 == DictAppend(m2, node1, <<node2, weight>>)
                 m4 == DictAppend(m3, node2, <<node1, weight>>)
             IN  [parent |-> u.parent, rank |-> u.rank, mst |-> m4]
        ELSE [parent |-> p2, rank |-> s.rank, mst |-> s.mst]

RECURSIVE kruskal_loop(_, _, _)
kruskal_loop(s, es, i) ==
    IF i > Len(es) THEN s ELSE kruskal_loop(kruskal_edge(s, es[i]), es, i + 1)

\* MST.__kruskal run to completion on the graph g
kruskal(g) ==
    LET s0 == [parent |-> [n \in Range(g.keys) |-> n],
               rank   |-> [n \in Range(g.keys) |-> 0],
               mst    |-> EmptyDict]
    IN  kruskal_loop(s0, SortEdges(create_edge_list(g)), 1).mst

-----------------------------------------------------------------------------
(* additional_connections.py                                               *)

\* the value None of nearest_node, and of distance before its first assignment
None == <<>>

\* default of the parameter min_distance of add_connections
min_distance == 3

\* AdditionalConnections.__calculate_weight
ac_calculate_weight(node1, node2) == Isqrt(Dist2(node1, node2))

\* acw with a comparison that is not strict
acw_not_strict(point1, point2, point3) ==
    (point3[2] - point1[2]) * (point2[1] - point1[1]) >= (point2[2] - point1[2]) * (point3[1] - point1[1])

\* AdditionalConnections.__acw
acw(point1, point2, point3) ==
    (point3[2] - point1[2]) * (point2[1] - point1[1]) > (point2[2] - point1[2]) * (point3[1] - point1[1])

\* AdditionalConnections.__do_edges_cross
do_edges_cross(a1, a2, b1, b2) ==
    acw(a1, b1, b2) # acw(a2, b1, b2) /\ acw(a1, a2, b1) # acw(a1, a2, b2)

\* AdditionalConnections.__crosses_existing_edges on the dict m
crosses_existing_edges(m, node1, node2) ==
    \E i \in 1..Len(m.keys) : \E k \in 1..Len(m.adj[m.keys[i]]) :
        do_edges_cross(m.keys[i], m.adj[m.keys[i]][k][1], node1, node2)

\* first loop of add_connections: the nodes with exactly one connection, in dict order
collect_single_connection_nodes(m) == SelectSeq(m.keys, LAMBDA n : Len(m.adj[n]) = 1)

\* qualifies without the crossing test
qualifies_no_crossing_test(m, node, other_node, dist) == dist > min_distance

\* the test that makes other_node the nearest_node
qualifies(m, node, other_node, dist) ==
    dist > min_distance /\ ~crosses_existing_edges(m, node, other_node)

RECURSIVE scan_other_nodes(_, _, _, _, _, _)
\* inner loop of add_connections from position j on: the locals nearest_node and
\* distance after the loop (distance keeps the value of the last node scanned)
scan_other_nodes(m, leaves, node, j, nearest_node, dist) ==
    IF j > Len(leaves) THEN [nearest_node |-> nearest_node, distance |-> dist]
    ELSE LET other_node == leaves[j]
             d          == ac_calculate_weight(node, other_node)
         IN  IF node # other_node
             THEN scan_other_nodes(m, leaves, node, j + 1,
                                   IF qualifies(m, node, other_node, d) THEN other_node ELSE nearest_node,
                                   d)
             ELSE scan_other_nodes(m, leaves, node, j + 1, nearest_node, dist)

\* append_connection with the edge stored on the leaf only
append_connection_one_way(m, node, nearest_node, dist) ==
    DictAppend(m, node, <<nearest_node, dist>>)

\* the two appends of add_connections
append_connection(m, node, nearest_node, dist) ==
    DictAppend(DictAppend(m, node, <<nearest_node, dist>>), nearest_node, <<node, dist>>)

\* one iteration of the outer loop of add_connections for the leaf node: the dict
\* and the local distance after it (distance0 is the local's value before it)
add_connection(m, leaves, node, distance0) ==
    LET r == scan_other_nodes(m, leaves, node, 1, None, distance0)
    IN  [mst          |-> IF r.nearest_node # None
                          THEN append_connection(m, node, r.nearest_node, r.distance)
                          ELSE m,
         nearest_node |-> r.nearest_node,
         distance     |-> r.distance]

RECURSIVE add_connections_loop(_, _, _, _)
add_connections_loop(m, leaves, i, distance0) ==
    IF i > Len(leaves) THEN m
    ELSE LET r == add_connection(m, leaves, leaves[i], distance0)
         IN  add_connections_loop(r.mst, leaves, i + 1, r.distance)

\* AdditionalConnections.add_connections run to completion
add_connections(m) == add_connections_loop(m, collect_single_connection_nodes(m), 1, None)

\* MST.get_mst run to completion on the tilemap cells
get_mst(cells, additional) ==
    LET k == kruskal(swap_coordinates(make_graph(cells)))
    IN  IF additional THEN add_connections(k) ELSE k

-----------------------------------------------------------------------------
(* dijkstra.py: PriorityQueue.  __elements is a sequence of <<priority, item>>; *)
(* the operators take Python's 0-based indices.                             *)

\* float('inf')
Inf == -1

\* Python's a < b on numbers that may be float('inf')
NumLess(a, b) == a # Inf /\ (b = Inf \/ a < b)

\* x // 2 for an integer x (Python floors towards minus infinity)
FloorDiv2(x) == IF x >= 0 THEN x \div 2 ELSE -((1 - x) \div 2)

\* PriorityQueue.__swap
pq_swap(els, i, j) == [els EXCEPT ![i + 1] = els[j + 1], ![j + 1] = els[i + 1]]

RECURSIVE bubble_up(_, _)
\* PriorityQueue.__bubble_up
bubble_up(els, index) ==
    LET parent_index == FloorDiv2(index - 1)
    IN  IF index > 0 /\ NumLess(els[index + 1][1], els[parent_index + 1][1])
        THEN bubble_up(pq_swap(els, index, parent_index), parent_index)
        ELSE els

RECURSIVE bubble_down(_, _)
\* PriorityQueue.__bubble_down
bubble_down(els, index) ==
    LET left  == 2 * index + 1
        right == left + 1
    IN  IF left < Len(els)
        THEN LET child_index == IF right < Len(els) /\ NumLess(els[right + 1][1], els[left + 1][1])
                                THEN right ELSE left
             IN  IF NumLess(els[child_index + 1][1], els[index + 1][1])
                 THEN bubble_down(pq_swap(els, index, child_index), child_index)
                 ELSE els
        ELSE els

\* PriorityQueue.is_empty
is_empty(els) == Len(els) = 0

\* PriorityQueue.insert_item: the elements after the call
insert_item(els, item, priority) == bubble_up(Append(els, <<priority, item>>), Len(els))

\* PriorityQueue.pop_item on a non-empty queue: the item returned and the elements left
pop_item(els) ==
    IF Len(els) = 1
    THEN [item |-> els[1][2], elements |-> <<>>]
    ELSE [item |-> els[1][2], elements |-> bubble_down(Tail(els), 0)]

-----------------------------------------------------------------------------
(* dijkstra.py: Dijkstra.  A dict without order (distances, previous) is a   *)
(* function; d[k] = v is DictSet.                                           *)

DictSet(d, k, v) == (k :> v) @@ d

RECURSIVE SetAll(_, _, _, _)
\* for node in keys[i..]: d[node] = v
SetAll(d, keys, i, v) == IF i > Len(keys) THEN d ELSE SetAll(DictSet(d, keys[i], v), keys, i + 1, v)

RECURSIVE relax_neighbours_no_accumulate(_, _, _, _)
\* relax_neighbours with the tentative distance taken as the edge weight alone
relax_neighbours_no_accumulate(st, current_node, nbs, k) ==
    IF k > Len(nbs) THEN st
    ELSE LET neighbour == nbs[k][1]
             weight    == nbs[k][2]
             dist      == weight
         IN  IF NumLess(dist, st.distances[neighbour])
             THEN relax_neighbours_no_accumulate(
                      [distances |-> DictSet(st.distances, neighbour, dist),
                       previous  |-> DictSet(st.previous, neighbour, current_node),
                       queue     |-> insert_item(st.queue, neighbour, dist)],
                      current_node, nbs, k + 1)
             ELSE relax_neighbours_no_accumulate(st, current_node, nbs, k + 1)

RECURSIVE relax_neighbours(_, _, _, _)
\* the for loop over graph[current_node] from position k on; st = [distances, previous, queue]
relax_neighbours(st, current_node, nbs, k) ==
    IF k > Len(nbs) THEN st
    ELSE LET neighbour == nbs[k][1]
             weight    == nbs[k][2]
             dist      == st.distances[current_node] + weight
         IN  IF NumLess(dist, st.distances[neighbour])
             THEN relax_neighbours([distances |-> DictSet(st.distances, neighbour, dist),
                                    previous  |-> DictSet(st.previous, neighbour, current_node),
                                    queue     |-> insert_item(st.queue, neighbour, dist)],
                                   current_node, nbs, k + 1)
             ELSE relax_neighbours(st, current_node, nbs, k + 1)

RECURSIVE dijkstra_loop(_, _)
\* the while loop of Dijkstra.compute
dijkstra_loop(g, st) ==
    IF is_empty(st.queue) THEN st
    ELSE LET p   == pop_item(st.queue)
             st1 == [st EXCEPT !.queue = p.elements]
         IN  IF DictHas(g, p.item)
             THEN dijkstra_loop(g, relax_neighbours(st1, p.item, g.adj[p.item], 1))
             ELSE dijkstra_loop(g, st1)

RECURSIVE trace_path(_, _, _)
\* the loop that traces the path back from node; raised is TRUE when
\* self.__previous[node] raises KeyError on the way
trace_path(previous, node, path) ==
    IF node = None THEN [raised |-> FALSE, path |-> path]
    ELSE IF node \notin DOMAIN previous THEN [raised |-> TRUE, path |-> <<node>> \o path]
    ELSE trace_path(previous, previous[node], <<node>> \o path)

\* compute without the loop that sets every distance to infinity, once the
\* instance has distances
compute_keeping_distances(g, st, start, end) ==
    LET d0    == DictSet(IF st.distances = <<>> THEN SetAll(st.distances, g.keys, 1, Inf)
                         ELSE st.distances, start, 0)
        st0   == [distances |-> d0,
                  previous  |-> (start :> None),
                  queue     |-> insert_item(st.queue, start, 0)]
        st1   == dijkstra_loop(g, st0)
        found == end \in DOMAIN st1.distances /\ st1.distances[end] # Inf
        t     == IF found THEN trace_path(st1.previous, end, <<>>)
                 ELSE [raised |-> FALSE, path |-> <<>>]
    IN  [state  |-> st1,
         raised |-> t.raised,
         path   |-> IF t.raised THEN <<>> ELSE t.path,
         weight |-> IF found /\ ~t.raised THEN st1.distances[end] ELSE Inf]

\* Dijkstra.compute(start, end) on the instance state st = [distances, previous,
\* queue]: the instance state after the call, and what the call returns (or
\* whether it raises)
compute(g, st, start, end) ==
    LET d0    == DictSet(SetAll(st.distances, g.keys, 1, Inf), start, 0)
        st0   == [distances |-> d0,
                  previous  |-> (start :> None),
                  queue     |-> insert_item(st.queue, start, 0)]
        st1   == dijkstra_loop(g, st0)
        found == end \in DOMAIN st1.distances /\ st1.distances[end] # Inf
        t     == IF found THEN trace_path(st1.previous, end, <<>>)
                 ELSE [raised |-> FALSE, path |-> <<>>]
    IN  [state  |-> st1,
         raised |-> t.raised,
         path   |-> IF t.raised THEN <<>> ELSE t.path,
         weight |-> IF found /\ ~t.raised THEN st1.distances[end] ELSE Inf]

-----------------------------------------------------------------------------
(* The road network state machine: MST(map_array).get_mst(additional_roads) *)

\* The tilemaps of the model: 2..MaxNodes buildings, with a building in the first
\* row and one in the first column (the algorithms only use coordinate
\* differences and coordinate order, so every other map is a translation of one
\* of these).
Maps == {m \in SUBSET Cells : /\ Cardinality(m) >= 2 /\ Cardinality(m) <= MaxNodes
                             /\ (\E c \in m : c[1] = 0)
                             /\ (\E c \in m : c[2] = 0)}

\* dj_call before the first call of compute
NoCall == [start |-> None, end |-> None, path |-> <<>>, weight |-> Inf, raised |-> FALSE]

\* trial before the first trial
NoTrial == [kind |-> "none", draw |-> 0, result |-> FALSE]

\* active_infections before the first call of has_active_infections
NotCalled == [called |-> FALSE, result |-> FALSE]

\* last_op before the population exists
NoOp == [assignments |-> <<>>, recover_draws |-> <<>>, tests |-> <<>>]

\* the variables of the disease and the population while they do not exist
PopulationUnused ==
    /\ disease = None
    /\ people = <<>>
    /\ occupants = None
    /\ route_intersections = <<>>
    /\ trial = NoTrial
    /\ active_infections = NotCalled
    /\ last_op = NoOp

\* cross_call while __do_edges_cross is not under test
NoCross == [a1 |-> None, a2 |-> None, b1 |-> None, b2 |-> None, called |-> FALSE, result |-> FALSE]

\* find_call before the first call of __find
NoFind == [node |-> None, result |-> None, before |-> <<>>]

\* pq_call before the first call of pop_item
NoPop == [priority |-> Inf, before |-> <<>>]

\* no clock: the specifications of the parts have none
NoClock == [day |-> 0, hour |-> 0, running |-> FALSE]

ClockUnused == clock = NoClock /\ main_pc = "none"

\* the histories of single calls while no helper is called on its own
CallsUnused ==
    /\ cross_call = NoCross
    /\ find_call = NoFind
    /\ pq_call = NoPop

\* the variables of the other components while the road network is built
DijkstraUnused ==
    /\ dj_graph = EmptyDict
    /\ dj_distances = <<>>
    /\ dj_previous = <<>>
    /\ dj_queue = <<>>
    /\ dj_call = NoCall

\* the state after MST.__init__
RoadInit ==
    /\ map_array \in Maps
    /\ additional_roads = None
    /\ graph = swap_coordinates(make_graph(map_array))
    /\ edges = create_edge_list(graph)
    /\ parent = <<>>
    /\ rank = <<>>
    /\ mst = EmptyDict
    /\ edge_index = 0
    /\ single_connection_nodes = <<>>
    /\ leaf_index = 0
    /\ distance = None
    /\ input_mst = EmptyDict
    /\ added = <<>>
    /\ road_pc = "get_mst"
    /\ DijkstraUnused
    /\ PopulationUnused
    /\ CallsUnused
    /\ ClockUnused

\* __kruskal up to the for loop: make the sets and sort the edges
KruskalStart ==
    /\ road_pc = "get_mst"
    /\ parent' = [n \in Range(graph.keys) |-> n]
    /\ rank' = [n \in Range(graph.keys) |-> 0]
    /\ edges' = SortEdges(edges)
    /\ mst' = EmptyDict
    /\ edge_index' = 1
    /\ road_pc' = "kruskal"
    /\ UNCHANGED <<map_array, additional_roads, graph, single_connection_nodes, leaf_index,
                   distance, input_mst, added>>

\* one iteration of the for loop of __kruskal
KruskalEdge ==
    /\ road_pc = "kruskal"
    /\ edge_index <= Len(edges)
    /\ LET r == kruskal_edge([parent |-> parent, rank |-> rank, mst |-> mst], edges[edge_index])
       IN  /\ parent' = r.parent
           /\ rank' = r.rank
           /\ mst' = r.mst
    /\ edge_index' = edge_index + 1
    /\ UNCHANGED <<map_array, additional_roads, graph, edges, single_connection_nodes, leaf_index,
                   distance, input_mst, added, road_pc>>

\* __kruskal returns to get_mst, which hands the tree to add_connections or returns
\* it.  The argument additional_roads is used nowhere else, so the model draws it
\* here, where it first makes a difference.
KruskalReturn ==
    /\ road_pc = "kruskal"
    /\ edge_index > Len(edges)
    /\ \E additional \in BOOLEAN :
          /\ additional_roads' = additional
          /\ road_pc' = IF additional THEN "add_connections" ELSE "done"
          /\ input_mst' = IF additional THEN mst ELSE input_mst
    /\ UNCHANGED <<map_array, graph, edges, parent, rank, mst, edge_index,
                   single_connection_nodes, leaf_index, distance, added>>

\* first loop of add_connections
CollectLeaves ==
    /\ road_pc = "add_connections"
    /\ single_connection_nodes' = collect_single_connection_nodes(mst)
    /\ leaf_index' = 1
    /\ road_pc' = "connect"
    /\ UNCHANGED <<map_array, additional_roads, graph, edges, parent, rank, mst, edge_index,
                   distance, input_mst, added>>

\* one iteration of the outer loop of add_connections
AddConnection ==
    /\ road_pc = "connect"
    /\ leaf_index <= Len(single_connection_nodes)
    /\ LET node == single_connection_nodes[leaf_index]
           r    == add_connection(mst, single_connection_nodes, node, distance)
       IN  /\ mst' = r.mst
           /\ distance' = r.distance
           /\ added' = IF r.nearest_node # None
                       THEN Append(added, [node |-> node, nearest_node |-> r.nearest_node,
                                           weight |-> r.distance, before |-> mst])
                       ELSE added
    /\ leaf_index' = leaf_index + 1
    /\ UNCHANGED <<map_array, additional_roads, graph, edges, parent, rank, edge_index,
                   single_connection_nodes, input_mst, road_pc>>

\* add_connections returns the network
AddConnectionsReturn ==
    /\ road_pc = "connect"
    /\ leaf_index > Len(single_connection_nodes)
    /\ road_pc' = "done"
    /\ UNCHANGED <<map_array, additional_roads, graph, edges, parent, rank, mst, edge_index,
                   single_connection_nodes, leaf_index, distance, input_mst, added>>

RoadNext ==
    /\ \/ KruskalStart
       \/ KruskalEdge
       \/ KruskalReturn
       \/ CollectLeaves
       \/ AddConnection
       \/ AddConnectionsReturn
    /\ UNCHANGED <<dijkstraVars, populationVars, callVars, clockVars>>

SpecRoad == RoadInit /\ [][RoadNext]_vars

-----------------------------------------------------------------------------
(* The shortest-path state machine: one Dijkstra instance on a road network, *)
(* queried repeatedly (InitialisePeople keeps one instance for all people).  *)

\* the variables of the road network builder while paths are computed
RoadUnused ==
    /\ map_array = {}
    /\ additional_roads = None
    /\ graph = EmptyDict
    /\ edges = <<>>
    /\ parent = <<>>
    /\ rank = <<>>
    /\ mst = EmptyDict
    /\ edge_index = 0
    /\ single_connection_nodes = <<>>
    /\ leaf_index = 0
    /\ distance = None
    /\ input_mst = EmptyDict
    /\ added = <<>>
    /\ road_pc = "done"

\* The tilemaps whose road networks are queried: the maps of Maps with all
\* buildings in the corner blocks (first or last row, two leftmost or two
\* rightmost columns), so that leaves far enough apart for additional
\* connections exist.
DijkstraMaps == {m \in Maps : \A c \in m : /\ c[1] \in {0, GridH - 1}
                                            /\ (c[2] <= 1 \/ c[2] >= GridW - 2)}

\* a coordinate that is no building of any map
OutsideNode == <<GridW, GridH>>

\* the state after Dijkstra.__init__(roads)
DijkstraInit ==
    /\ RoadUnused
    /\ PopulationUnused
    /\ CallsUnused
    /\ ClockUnused
    /\ \E m \in DijkstraMaps : \E additional \in BOOLEAN : dj_graph = get_mst(m, additional)
    /\ dj_distances = <<>>
    /\ dj_previous = <<>>
    /\ dj_queue = <<>>
    /\ dj_call = NoCall

\* Dijkstra.compute(start, end)
Compute(start, end) ==
    /\ \E r \in {compute(dj_graph, [distances |-> dj_distances, previous |-> dj_previous,
                                     queue |-> dj_queue], start, end)} :
           /\ dj_distances' = r.state.distances
           /\ dj_previous' = r.state.previous
           /\ dj_queue' = r.state.queue
           /\ dj_call' = [start |-> start, end |-> end, path |-> r.path, weight |-> r.weight,
                          raised |-> r.raised]
    /\ UNCHANGED dj_graph

DijkstraNext ==
    /\ \E start \in Range(dj_graph.keys) \cup {OutsideNode} :
       \E end \in Range(dj_graph.keys) \cup {OutsideNode} : Compute(start, end)
    /\ UNCHANGED <<roadVars, populationVars, callVars, clockVars>>

SpecDijkstra == DijkstraInit /\ [][DijkstraNext]_vars

-----------------------------------------------------------------------------
(* disease.py: Disease.  Rates are written in thousandths, a daily rate of  *)
(* 1.0 being 1000.  __init__ divides each daily rate by 24; the record keeps *)
(* the daily rate r in thousandths, so the hourly rate of the object is     *)
(* r / 24000, and "d < hourly rate * 1000" is "24 * d < r".                *)

\* Disease.__init__; incubation_time is given in 24ths of a day
Disease(infection_rate, incubation_time, recovery_rate, mortality_rate, seconds_per_hour) ==
    [seconds_per_hour |-> seconds_per_hour,
     infection_rate   |-> infection_rate,
     incubation_time  |-> incubation_time * seconds_per_hour,
     recovery_rate    |-> recovery_rate,
     mortality_rate   |-> mortality_rate]

\* the values random.randint(a, b) can return
randint(a, b) == a..b

\* Disease.infect when random.randint(0, 1000) returns d
infect(dis, d) == 24 * d < dis.infection_rate

\* recover with the daily rate taken as the hourly rate
recover_daily_rate_each_hour(dis, d) == d < dis.recovery_rate

\* Disease.recover when random.randint(0, 1000) returns d
recover(dis, d) == 24 * d < dis.recovery_rate

\* Disease.die when random.randint(0, 1000) returns d
die(dis, d) == 24 * d < dis.mortality_rate

\* Disease.get_incubation_time
get_incubation_time(dis) == dis.incubation_time

-----------------------------------------------------------------------------
(* initialise_people.py: InitialisePeople.  A location is a tile <<x, y>>, a *)
(* position a point <<x, y>> of the display.  person_id i is people[i + 1]. *)

\* the parameters of the run: size of a building, of the display, frame rate
\* and real seconds per simulated hour
building_width == 12
building_height == 12
display_width == 1200
fps == 60
seconds_per_hour == 1

\* math.ceil(math.sqrt(n))
CeilSqrt(n) == IF Isqrt(n) * Isqrt(n) = n THEN Isqrt(n) ELSE Isqrt(n) + 1

Min(a, b) == IF a < b THEN a ELSE b

\* the number of occurrences of x in the list s
Count(s, x) == Cardinality({k \in 1..Len(s) : s[k] = x})

\* list(reversed(s))
Reversed(s) == [k \in 1..Len(s) |-> s[Len(s) + 1 - k]]

\* InitialisePeople.__calculate_speed for a display of the given width
calculate_speed(width) == (width * (60 \div fps)) \div ((2 * building_width) * seconds_per_hour)

\* InitialisePeople.__calculate_time_to_travel(route_weight + 0.5, speed), times
\* seconds_per_hour: math.ceil((route_weight + 0.5) / speed)
calculate_time_to_travel(route_weight, speed) ==
    (2 * route_weight + 1 + 2 * speed - 1) \div (2 * speed)

\* InitialisePeople.__calculate_leave_home; time is time_to_travel times
\* seconds_per_hour
calculate_leave_home(time) ==
    LET leave_home == 9 - ((time + seconds_per_hour - 1) \div seconds_per_hour)
    IN  IF leave_home < 1 THEN 1 ELSE leave_home

\* InitialisePeople.__scale_xy_list
scale_xy_list(xylist) ==
    [k \in 1..Len(xylist) |-> <<xylist[k][1] * building_width + building_width \div 2,
                                xylist[k][2] * building_height + building_height \div 2>>]

\* InitialisePeople.__calculate_positions: the offsets building_width / (divisions + 1)
\* are whole numbers for the building size and the occupancies of the model
calculate_positions(num_in_building, building_location) ==
    LET divisions == CeilSqrt(num_in_building)
        x_offset  == building_width \div (divisions + 1)
        y_offset  == building_height \div (divisions + 1)
    IN  [k \in 1..(divisions * divisions) |->
            LET i == (k - 1) \div divisions
                j == (k - 1) % divisions
            IN  <<building_location[1] * building_width + x_offset * (j + 1),
                  building_location[2] * building_height + y_offset * (i + 1)>>]

\* InitialisePeople.__calculate_radius
calculate_radius(num_in_building) ==
    Min(Min(building_width, building_height) \div 10,
        Min(building_width, building_height) \div (2 * (CeilSqrt(num_in_building) + 1)))

\* InitialisePeople.__calculate_people_dist_in_offices
calculate_people_dist_in_offices(num_people, num_offices) ==
    [i \in 1..num_offices |-> (num_people \div num_offices)
                              + (IF i - 1 < num_people % num_offices THEN 1 ELSE 0)]

RECURSIVE Repeat(_, _)
Repeat(x, n) == IF n = 0 THEN <<>> ELSE <<x>> \o Repeat(x, n - 1)

RECURSIVE calculate_office_location_dist_from(_, _, _)
calculate_office_location_dist_from(offices, distribution, index) ==
    IF index > Len(offices) THEN <<>>
    ELSE Repeat(offices[index], distribution[index])
         \o calculate_office_location_dist_from(offices, distribution, index + 1)

\* InitialisePeople.__calculate_office_location_dist
calculate_office_location_dist(offices, num_people) ==
    calculate_office_location_dist_from(
        offices, calculate_people_dist_in_offices(num_people, Len(offices)), 1)

\* the lists random.shuffle can leave in place of s
Shuffles(s) == {t \in [1..Len(s) -> Range(s)] : \A x \in Range(s) : Count(t, x) = Count(s, x)}

\* InitialisePeople.__calculate_status
calculate_status(person_id, infected_person_id) ==
    IF person_id = infected_person_id THEN "I" ELSE "S"

\* Person.__init__
Person(person_id, home_location, office_location, home_position, home_radius, office_radius, home_to_office_route, speed, leave_home, status, incubation_time, sph) ==
    [person_id            |-> person_id,
     home_location        |-> home_location,
     office_location      |-> office_location,
     home_position        |-> home_position,
     office_position      |-> None,
     current_position     |-> home_position,
     home_radius          |-> home_radius,
     office_radius        |-> office_radius,
     home_to_office_route |-> home_to_office_route,
     office_to_home_route |-> None,
     speed                |-> speed,
     leave_home           |-> leave_home,
     status               |-> status,
     route                |-> None,
     route_index          |-> 0,
     moving               |-> FALSE,
     incubation_time      |-> incubation_time,
     seconds_per_hour     |-> sph]

\* Person.set_office_position
set_office_position(p, office_position) ==
    LET r == <<p.home_position>> \o p.home_to_office_route \o <<office_position>>
    IN  [p EXCEPT !.office_position = office_position,
                  !.home_to_office_route = r,
                  !.office_to_home_route = Reversed(r)]

\* the index of person_id in the list of occupants (the loop of
\* __calculate_office_position)
occupant_index(occs, person_id) == CHOOSE k \in 1..Len(occs) : occs[k] = person_id

RECURSIVE initialise_people_from(_, _, _)
\* the for loop of InitialisePeople.__initialise_people from person_id on;
\* t holds the run's inputs, st = [people, occupants, dijkstra]
initialise_people_from(t, st, person_id) ==
    IF person_id >= Len(t.houses) * t.num_in_house THEN st
    ELSE LET home_location   == t.houses[(person_id \div t.num_in_house) + 1]
             office_location == t.office_location_dist[person_id + 1]
             home_position   == calculate_positions(t.num_in_house, home_location)
                                    [(person_id % t.num_in_house) + 1]
             c               == compute(t.roads, st.dijkstra, home_location, office_location)
             individual      == Person(person_id, home_location, office_location, home_position,
                                       calculate_radius(t.num_in_house),
                                       calculate_radius(Count(t.office_location_dist,
                                                              office_location)),
                                       scale_xy_list(c.path), calculate_speed(t.display_width),
                                       calculate_leave_home(calculate_time_to_travel(
                                           c.weight, calculate_speed(t.display_width))),
                                       calculate_status(person_id, t.infected_person_id),
                                       get_incubation_time(t.disease), seconds_per_hour)
             homes           == [st.occupants.homes EXCEPT
                                    ![home_location] = Append(@, person_id)]
             offices         == [st.occupants.offices EXCEPT
                                    ![office_location] = Append(@, person_id)]
             office_position == calculate_positions(
                                    Count(t.office_location_dist, office_location),
                                    office_location)
                                    [occupant_index(offices[office_location], person_id)]
         IN  initialise_people_from(
                 t,
                 [people    |-> Append(st.people, set_office_position(individual, office_position)),
                  occupants |-> [homes |-> homes, offices |-> offices],
                  dijkstra  |-> c.state],
                 person_id + 1)

\* InitialisePeople.__init__ and __initialise_people: the people and the
\* occupants of the buildings
initialise_people(t) ==
    initialise_people_from(
        t,
        [people    |-> <<>>,
         occupants |-> [homes   |-> [l \in Range(t.houses) |-> <<>>],
                        offices |-> [l \in Range(t.offices) |-> <<>>]],
         dijkstra  |-> [distances |-> <<>>, previous |-> <<>>, queue |-> <<>>]],
        0)

RECURSIVE intersecting_from(_, _, _)
\* the inner loop of __find_route_intersections for people[i] from people[j] on
intersecting_from(P, i, j) ==
    IF j > Len(P) THEN <<>>
    ELSE (IF i # j /\ Range(P[i].home_to_office_route) \cap Range(P[j].home_to_office_route) # {}
          THEN <<P[j].person_id>> ELSE <<>>) \o intersecting_from(P, i, j + 1)

\* Population.__find_route_intersections
find_route_intersections(P) ==
    [person_id \in 0..(Len(P) - 1) |-> intersecting_from(P, person_id + 1, 1)]

-----------------------------------------------------------------------------
(* person.py: Person, population.py: Population.  The operations that draw  *)
(* random numbers return the set of their possible outcomes.  A population  *)
(* state st is [people, assignments, recover_draws, tests]: the people, and *)
(* the history of the operation in progress (every assignment to a status,  *)
(* the number each call of recover drew, and every distance test of         *)
(* __check_interactions with the positions it read).                        *)

\* the draws the population operations distinguish: the two values around
\* 1000 / 24 and the largest value random.randint(0, 1000) returns
Draws == {41, 42, 1000}

\* the statuses of the people, in order
Statuses(P) == [i \in 1..Len(P) |-> P[i].status]

\* Person.set_status on person_id
set_status(st, person_id, status) ==
    [st EXCEPT !.people[person_id + 1].status = status,
               !.assignments = Append(@, [person |-> person_id,
                                          from   |-> st.people[person_id + 1].status,
                                          to     |-> status])]

\* Person.get_radius
get_radius(p) == IF p.current_position = p.home_position THEN p.home_radius ELSE p.office_radius

\* start_move_to_office without the test that the person is not deceased
start_move_to_office_any_status(p) ==
    [p EXCEPT !.route = p.home_to_office_route, !.route_index = 0, !.moving = TRUE]

\* Person.start_move_to_office
start_move_to_office(p) ==
    IF p.status # "D"
    THEN [p EXCEPT !.route = p.home_to_office_route, !.route_index = 0, !.moving = TRUE]
    ELSE p

\* Person.start_move_to_home
start_move_to_home(p) ==
    IF p.status # "D"
    THEN [p EXCEPT !.route = p.office_to_home_route, !.route_index = 0, !.moving = TRUE]
    ELSE p

\* x / distance * speed for a step along one axis: distance = |x|
AxisStep(x, speed) == IF x > 0 THEN speed ELSE IF x < 0 THEN -speed ELSE 0

\* update_position without "if self.__route_index >= len(self.__route): self.__moving = False"
update_position_keeps_moving(p) ==
    IF p.status = "D" THEN [p EXCEPT !.moving = FALSE]
    ELSE IF ~(p.moving /\ p.route_index < Len(p.route)) THEN p
    ELSE LET next_position == p.route[p.route_index + 1]
             dx == next_position[1] - p.current_position[1]
             dy == next_position[2] - p.current_position[2]
         IN  IF dx * dx + dy * dy < p.speed * p.speed
             THEN [p EXCEPT !.current_position = next_position,
                            !.route_index = p.route_index + 1]
             ELSE CASE dx = 0 \/ dy = 0 ->
                      [p EXCEPT !.current_position = <<p.current_position[1] + AxisStep(dx, p.speed),
                                                       p.current_position[2] + AxisStep(dy, p.speed)>>]

\* Person.update_position.  distance < speed is dx^2 + dy^2 < speed^2; a step
\* that does not reach the next position is taken along one axis in every town
\* of the model.
update_position(p) ==
    IF p.status = "D" THEN [p EXCEPT !.moving = FALSE]
    ELSE IF ~(p.moving /\ p.route_index < Len(p.route)) THEN p
    ELSE LET next_position == p.route[p.route_index + 1]
             dx == next_position[1] - p.current_position[1]
             dy == next_position[2] - p.current_position[2]
         IN  IF dx * dx + dy * dy < p.speed * p.speed
             THEN [p EXCEPT !.current_position = next_position,
                            !.route_index = p.route_index + 1,
                            !.moving = p.route_index + 1 < Len(p.route)]
             ELSE CASE dx = 0 \/ dy = 0 ->
                      [p EXCEPT !.current_position = <<p.current_position[1] + AxisStep(dx, p.speed),
                                                       p.current_position[2] + AxisStep(dy, p.speed)>>]

\* Population.__calculate_distance(pos1, pos2) <= limit
within_distance(pos1, pos2, limit) == Dist2(pos1, pos2) <= limit * limit

\* the record of one distance test of __check_interactions: who was tested
\* against whom, the status of the tester, the positions the test read, and
\* whether an infection trial was rolled and succeeded
tested(st, person_id, other_id, rolled, exposed) ==
    [st EXCEPT !.tests = Append(@, [person         |-> person_id,
                                    status         |-> st.people[person_id + 1].status,
                                    other          |-> other_id,
                                    position       |-> st.people[person_id + 1].current_position,
                                    other_position |-> st.people[other_id + 1].current_position,
                                    rolled         |-> rolled,
                                    exposed        |-> exposed])]

RECURSIVE check_interactions_from(_, _, _, _, _)
\* the for loop of __check_interactions over others from position k on
check_interactions_from(st, dis, person_id, others, k) ==
    IF k > Len(others) THEN {st}
    ELSE LET individual == st.people[person_id + 1]
             other      == st.people[others[k] + 1]
         IN  IF other.status = "S"
             THEN IF within_distance(individual.current_position, other.current_position,
                                     2 * get_radius(individual))
                  THEN UNION {check_interactions_from(
                                  IF infect(dis, d)
                                  THEN set_status(tested(st, person_id, others[k], TRUE, TRUE),
                                                  others[k], "E")
                                  ELSE tested(st, person_id, others[k], TRUE, FALSE),
                                  dis, person_id, others, k + 1) : d \in Draws}
                  ELSE check_interactions_from(tested(st, person_id, others[k], FALSE, FALSE),
                                               dis, person_id, others, k + 1)
             ELSE check_interactions_from(st, dis, person_id, others, k + 1)

\* check_interactions without the test that the individual is infectious
check_interactions_any_status(st, dis, intersections, person_id) ==
    check_interactions_from(st, dis, person_id, intersections[person_id], 1)

\* Population.__check_interactions(individual)
check_interactions(st, dis, intersections, person_id) ==
    IF st.people[person_id + 1].status = "I"
    THEN check_interactions_from(st, dis, person_id, intersections[person_id], 1)
    ELSE {st}

RECURSIVE update_positions_from(_, _, _, _)
\* the for loop of Population.update_positions from people[i] on
update_positions_from(st, dis, intersections, i) ==
    IF i > Len(st.people) THEN {st}
    ELSE UNION {update_positions_from(s, dis, intersections, i + 1) :
                   s \in check_interactions([st EXCEPT !.people[i] = update_position(@)],
                                            dis, intersections, st.people[i].person_id)}

\* Population.update_positions
update_positions(st, dis, intersections) == update_positions_from(st, dis, intersections, 1)

\* the occupants __check_building_interactions looks at for an individual
building_occupants(p, occ) ==
    IF p.current_position = p.home_position THEN occ.homes[p.home_location]
    ELSE IF p.current_position = p.office_position THEN occ.offices[p.office_location]
    ELSE <<>>

RECURSIVE infect_occupants_of_any_status_from(_, _, _, _)
\* infect_occupants_from without the test that the occupant is susceptible
infect_occupants_of_any_status_from(st, dis, occs, k) ==
    IF k > Len(occs) THEN {st}
    ELSE UNION {infect_occupants_of_any_status_from(
                    IF infect(dis, d) THEN set_status(st, occs[k], "E") ELSE st,
                    dis, occs, k + 1) : d \in Draws}

RECURSIVE infect_occupants_from(_, _, _, _)
\* the for loop over occupants from position k on
infect_occupants_from(st, dis, occs, k) ==
    IF k > Len(occs) THEN {st}
    ELSE IF st.people[occs[k] + 1].status = "S"
         THEN UNION {infect_occupants_from(
                         IF infect(dis, d) THEN set_status(st, occs[k], "E") ELSE st,
                         dis, occs, k + 1) : d \in Draws}
         ELSE infect_occupants_from(st, dis, occs, k + 1)

RECURSIVE check_building_interactions_of_any_status_from(_, _, _, _)
\* check_building_interactions_from without the test that the individual is infectious
check_building_interactions_of_any_status_from(st, dis, occ, i) ==
    IF i > Len(st.people) THEN {st}
    ELSE UNION {check_building_interactions_of_any_status_from(s, dis, occ, i + 1) :
                   s \in infect_occupants_from(st, dis, building_occupants(st.people[i], occ), 1)}

RECURSIVE check_building_interactions_from(_, _, _, _)
\* the for loop of __check_building_interactions from people[i] on
check_building_interactions_from(st, dis, occ, i) ==
    IF i > Len(st.people) THEN {st}
    ELSE IF st.people[i].status = "I"
         THEN UNION {check_building_interactions_from(s, dis, occ, i + 1) :
                        s \in infect_occupants_from(st, dis,
                                                    building_occupants(st.people[i], occ), 1)}
         ELSE check_building_interactions_from(st, dis, occ, i + 1)

\* Population.__check_building_interactions
check_building_interactions(st, dis, occ) == check_building_interactions_from(st, dis, occ, 1)

\* the record of the trials of one person in state I: the number recover drew
\* and what became of the die trial ("not rolled", "failed" or "succeeded")
rolled(st, person_id, d, die_trial) ==
    [st EXCEPT !.recover_draws = Append(@, [person |-> person_id, draw |-> d, die |-> die_trial])]

\* update_infection_status with "if die()" in the place of "elif die()"
person_update_infection_status_no_elif(st, dis, person_id) ==
    LET p == st.people[person_id + 1]
    IN  IF p.status = "E"
        THEN LET left == p.incubation_time - p.seconds_per_hour
                 st1  == [st EXCEPT !.people[person_id + 1].incubation_time = left]
             IN  {IF left <= 0 THEN set_status(st1, person_id, "I") ELSE st1}
        ELSE IF p.status = "I"
        THEN UNION {{LET st1 == IF recover(dis, d)
                                THEN set_status(rolled(st, person_id, d,
                                                       IF die(dis, e) THEN "succeeded" ELSE "failed"),
                                                person_id, "R")
                                ELSE rolled(st, person_id, d,
                                            IF die(dis, e) THEN "succeeded" ELSE "failed")
                     IN  IF die(dis, e)
                         THEN [set_status(st1, person_id, "D")
                                  EXCEPT !.people[person_id + 1].moving = FALSE]
                         ELSE st1 : e \in Draws} : d \in Draws}
        ELSE {st}

\* update_infection_status with "if self.__incubation_time < 0"
person_update_infection_status_below_zero(st, dis, person_id) ==
    LET p == st.people[person_id + 1]
    IN  IF p.status = "E"
        THEN LET left == p.incubation_time - p.seconds_per_hour
                 st1  == [st EXCEPT !.people[person_id + 1].incubation_time = left]
             IN  {IF left < 0 THEN set_status(st1, person_id, "I") ELSE st1}
        ELSE IF p.status = "I"
        THEN UNION {IF recover(dis, d)
                    THEN {set_status(rolled(st, person_id, d, "not rolled"), person_id, "R")}
                    ELSE {IF die(dis, e)
                          THEN [set_status(rolled(st, person_id, d, "succeeded"), person_id, "D")
                                   EXCEPT !.people[person_id + 1].moving = FALSE]
                          ELSE rolled(st, person_id, d, "failed") : e \in Draws} : d \in Draws}
        ELSE {st}

\* Person.update_infection_status on person_id
person_update_infection_status(st, dis, person_id) ==
    LET p == st.people[person_id + 1]
    IN  IF p.status = "E"
        THEN LET left == p.incubation_time - p.seconds_per_hour
                 st1  == [st EXCEPT !.people[person_id + 1].incubation_time = left]
             IN  {IF left <= 0 THEN set_status(st1, person_id, "I") ELSE st1}
        ELSE IF p.status = "I"
        THEN UNION {IF recover(dis, d)
                    THEN {set_status(rolled(st, person_id, d, "not rolled"), person_id, "R")}
                    ELSE {IF die(dis, e)
                          THEN [set_status(rolled(st, person_id, d, "succeeded"), person_id, "D")
                                   EXCEPT !.people[person_id + 1].moving = FALSE]
                          ELSE rolled(st, person_id, d, "failed") : e \in Draws} : d \in Draws}
        ELSE {st}

RECURSIVE update_infection_status_from(_, _, _)
\* the for loop of Population.update_infection_status from people[i] on
update_infection_status_from(st, dis, i) ==
    IF i > Len(st.people) THEN {st}
    ELSE UNION {update_infection_status_from(s, dis, i + 1) :
                   s \in person_update_infection_status(st, dis, st.people[i].person_id)}

\* Population.update_infection_status
update_infection_status(st, dis, occ) ==
    UNION {update_infection_status_from(s, dis, 1) : s \in check_building_interactions(st, dis, occ)}

RECURSIVE has_active_infections_infected_only_from(_, _)
\* has_active_infections_from looking for state I only
has_active_infections_infected_only_from(P, i) ==
    IF i > Len(P) THEN FALSE
    ELSE IF P[i].status = "I" THEN TRUE
    ELSE has_active_infections_infected_only_from(P, i + 1)

RECURSIVE has_active_infections_from(_, _)
\* the for loop of has_active_infections from people[i] on
has_active_infections_from(P, i) ==
    IF i > Len(P) THEN FALSE
    ELSE IF P[i].status \in {"E", "I"} THEN TRUE
    ELSE has_active_infections_from(P, i + 1)

\* Population.has_active_infections
has_active_infections(P) == has_active_infections_from(P, 1)

-----------------------------------------------------------------------------
(* The trial state machine: infect, recover and die called on one Disease.  *)

\* the daily rates of the diseases tried, <<infection, recovery, mortality>>:
\* each trial meets the rates 0, 1.0 and 24.0 (hourly 0, 1/24 and 1)
TrialRates == {<<0, 1000, 24000>>, <<1000, 24000, 0>>, <<24000, 0, 1000>>}

TrialInit ==
    /\ RoadUnused
    /\ DijkstraUnused
    /\ CallsUnused
    /\ ClockUnused
    /\ disease \in {Disease(x[1], 0, x[2], x[3], 1) : x \in TrialRates}
    /\ people = <<>>
    /\ occupants = None
    /\ route_intersections = <<>>
    /\ trial = NoTrial
    /\ active_infections = NotCalled
    /\ last_op = NoOp

Infect ==
    \E d \in randint(0, 1000) :
        trial' = [kind |-> "infect", draw |-> d, result |-> infect(disease, d)]

Recover ==
    \E d \in randint(0, 1000) :
        trial' = [kind |-> "recover", draw |-> d, result |-> recover(disease, d)]

Die ==
    \E d \in randint(0, 1000) :
        trial' = [kind |-> "die", draw |-> d, result |-> die(disease, d)]

TrialNext ==
    /\ Infect \/ Recover \/ Die
    /\ UNCHANGED <<roadVars, dijkstraVars, callVars, clockVars, disease, people, occupants,
                   route_intersections, active_infections, last_op>>

SpecTrial == TrialInit /\ [][TrialNext]_vars

-----------------------------------------------------------------------------
(* The population state machine: a Population after construction, driven by *)
(* update_positions (a tick), update_infection_status (an hourly update)    *)
(* and the move commands of the people.                                     *)

\* The towns of the model: the houses on the first tiles of the first row of
\* the tilemap, the offices on the tiles that follow, num_in_house people in
\* every house.
Towns ==
    {[houses       |-> [k \in 1..x[1] |-> <<k - 1, 0>>],
      offices      |-> [k \in 1..x[2] |-> <<x[1] + k - 1, 0>>],
      num_in_house |-> x[3]] :
        x \in {y \in (1..TownW) \X (1..TownW) \X (1..MaxPeople) :
                  y[1] + y[2] <= TownW /\ y[1] * y[3] <= MaxPeople}}

\* the array cells <<row, column>> of the buildings of a town
TownCells(town) == {<<l[2], l[1]>> : l \in Range(town.houses) \cup Range(town.offices)}

\* the diseases of the model: infection and recovery rate 1.0 a day, mortality
\* rate 0 or 1.0 a day, incubation time 0 or MaxIncubationHours / 24 days
SimDiseases ==
    {Disease(1000, h, 1000, m, seconds_per_hour) : h \in {0, MaxIncubationHours}, m \in {0, 1000}}

\* the populations Population.__init__ can build on the towns given, with a
\* display of the width given: [disease, people, occupants, route_intersections]
Populations(towns, width) ==
    UNION {UNION {UNION {
        {LET r == initialise_people([houses               |-> town.houses,
                                     offices              |-> town.offices,
                                     num_in_house         |-> town.num_in_house,
                                     display_width        |-> width,
                                     roads                |-> get_mst(TownCells(town), additional),
                                     office_location_dist |-> dist,
                                     infected_person_id   |-> infected,
                                     disease              |-> dis])
         IN  [disease             |-> dis,
              people              |-> r.people,
              occupants           |-> r.occupants,
              route_intersections |-> find_route_intersections(r.people)] :
            dist \in Shuffles(calculate_office_location_dist(
                                 town.offices, Len(town.houses) * town.num_in_house)),
            infected \in randint(0, Len(town.houses) * town.num_in_house - 1)} :
        additional \in BOOLEAN} : dis \in SimDiseases} : town \in towns}

\* the populations of the towns of the model
InitialPopulations == Populations(Towns, display_width)

\* the state after Population.__init__
SimInit ==
    /\ RoadUnused
    /\ DijkstraUnused
    /\ CallsUnused
    /\ ClockUnused
    /\ \E w \in InitialPopulations :
           /\ disease = w.disease
           /\ people = w.people
           /\ occupants = w.occupants
           /\ route_intersections = w.route_intersections
    /\ trial = NoTrial
    /\ active_infections = NotCalled
    /\ last_op = NoOp

\* the population state an operation starts from
Before == [people |-> people, assignments |-> <<>>, recover_draws |-> <<>>, tests |-> <<>>]

\* an operation returns leaving the population state st
Returns(st) ==
    /\ people' = st.people
    /\ last_op' = [assignments |-> st.assignments, recover_draws |-> st.recover_draws,
                    tests |-> st.tests]

\* Population.update_positions
UpdatePositions ==
    \E st \in update_positions(Before, disease, route_intersections) : Returns(st)

\* Population.update_infection_status
UpdateInfectionStatus ==
    \E st \in update_infection_status(Before, disease, occupants) : Returns(st)

\* Person.start_move_to_office on one person
StartMoveToOffice ==
    \E i \in 1..Len(people) : Returns([Before EXCEPT !.people[i] = start_move_to_office(@)])

\* Person.start_move_to_home on one person
StartMoveToHome ==
    \E i \in 1..Len(people) : Returns([Before EXCEPT !.people[i] = start_move_to_home(@)])

SimNext ==
    /\ UpdatePositions \/ UpdateInfectionStatus \/ StartMoveToOffice \/ StartMoveToHome
    /\ UNCHANGED <<roadVars, dijkstraVars, callVars, clockVars, disease, occupants, route_intersections,
                   trial, active_infections>>

SpecSim == SimInit /\ [][SimNext]_vars

-----------------------------------------------------------------------------
(* The population of a town with buildings between two others: two houses   *)
(* with one person each, at (0,0) and (2,0), and two offices, at (4,0) and   *)
(* (3,0).  With additional roads the leaves (0,0) and (4,0) of the tree are  *)
(* joined by a road that passes over the buildings (2,0) and (3,0).  The     *)
(* display is 288 wide, so that a person walks 12 a tick, the distance       *)
(* between two tiles; every route lies on the line y = 6.                    *)

ContactDisplayWidth == 288

ContactTowns ==
    {[houses       |-> <<<<0, 0>>, <<2, 0>>>>,
      offices      |-> <<<<4, 0>>, <<3, 0>>>>,
      num_in_house |-> 1]}

\* the state after Population.__init__
ContactInit ==
    /\ RoadUnused
    /\ DijkstraUnused
    /\ CallsUnused
    /\ ClockUnused
    /\ \E w \in Populations(ContactTowns, ContactDisplayWidth) :
           /\ disease = w.disease
           /\ people = w.people
           /\ occupants = w.occupants
           /\ route_intersections = w.route_intersections
    /\ trial = NoTrial
    /\ active_infections = NotCalled
    /\ last_op = NoOp

SpecContact == ContactInit /\ [][SimNext]_vars

-----------------------------------------------------------------------------
(* The clock and the main loop: Main.__run_simulation calls, in every       *)
(* iteration, Clock.update_time and then Population.update_positions, both  *)
(* only while the clock runs.  Whether an hour of the simulation has passed *)
(* since the last hourly update depends on the time of the machine: either  *)
(* can be the case at any call.                                             *)

\* the days of the model: the clock is followed to the end of day MaxDay
MaxDay == 2

\* the towns of the clock's populations: one house
ClockTowns == {t \in Towns : Len(t.houses) = 1}

\* "if self.__hour > 24: self.__hour = 1; self.__day += 1"
next_day(c) == IF c.hour > 24 THEN [c EXCEPT !.hour = 1, !.day = @ + 1] ELSE c

\* the move commands of update_time at the hour given, for every person
move_commands(P, hour) ==
    [i \in 1..Len(P) |->
        IF hour = P[i].leave_home THEN start_move_to_office(P[i])
        ELSE IF hour = 17 THEN start_move_to_home(P[i])
        ELSE P[i]]

\* update_time without "self.__running = False"
update_time_never_stops(c, st, dis, occ, passed) ==
    IF ~c.running
    THEN {[clock |-> c, st |-> st]}
    ELSE IF ~has_active_infections(st.people)
    THEN {[clock |-> c, st |-> s] : s \in update_infection_status(st, dis, occ)}
    ELSE IF passed
    THEN {[clock |-> next_day([c EXCEPT !.hour = @ + 1]),
           st    |-> [s EXCEPT !.people =
                         move_commands(s.people, next_day([c EXCEPT !.hour = @ + 1]).hour)]] :
             s \in update_infection_status(st, dis, occ)}
    ELSE {[clock |-> c, st |-> st]}

\* Clock.update_time on the clock c and the population state st; passed: an
\* hour has passed since the last hourly update.  The results [clock, st].
update_time(c, st, dis, occ, passed) ==
    IF ~c.running
    THEN {[clock |-> c, st |-> st]}
    ELSE IF ~has_active_infections(st.people)
    THEN {[clock |-> [c EXCEPT !.running = FALSE], st |-> s] :
             s \in update_infection_status(st, dis, occ)}
    ELSE IF passed
    THEN {[clock |-> next_day([c EXCEPT !.hour = @ + 1]),
           st    |-> [s EXCEPT !.people =
                         move_commands(s.people, next_day([c EXCEPT !.hour = @ + 1]).hour)]] :
             s \in update_infection_status(st, dis, occ)}
    ELSE {[clock |-> c, st |-> st]}

\* the state after Population.__init__ and Clock.__init__, at the first
\* iteration of the loop
ClockInit ==
    /\ RoadUnused
    /\ DijkstraUnused
    /\ CallsUnused
    /\ \E w \in Populations(ClockTowns, display_width) :
           /\ disease = w.disease
           /\ people = w.people
           /\ occupants = w.occupants
           /\ route_intersections = w.route_intersections
    /\ trial = NoTrial
    /\ active_infections = NotCalled
    /\ last_op = NoOp
    /\ clock = [day |-> 1, hour |-> 0, running |-> TRUE]
    /\ main_pc = "update_time"

\* "if self.__clock.get_running(): self.__clock.update_time()"
MainUpdateTime ==
    /\ main_pc = "update_time"
    /\ clock.running
    /\ \E passed \in BOOLEAN :
           /\ passed => (clock.day < MaxDay \/ clock.hour < 24)
           /\ \E r \in update_time(clock, Before, disease, occupants, passed) :
                  /\ clock' = r.clock
                  /\ Returns(r.st)
    /\ main_pc' = "update_positions"

\* "self.__population.update_positions()", in the same iteration
MainUpdatePositions ==
    /\ main_pc = "update_positions"
    /\ UpdatePositions
    /\ main_pc' = "update_time"
    /\ UNCHANGED clock

ClockNext ==
    /\ MainUpdateTime \/ MainUpdatePositions
    /\ UNCHANGED <<roadVars, dijkstraVars, callVars, disease, occupants, route_intersections,
                   trial, active_infections>>

SpecClock == ClockInit /\ [][ClockNext]_vars

-----------------------------------------------------------------------------
(* has_active_infections as a function of the statuses: called once on a    *)
(* population whose people hold any statuses.                               *)

StatusSet == {"S", "E", "I", "R", "D"}

ActiveInit ==
    /\ RoadUnused
    /\ DijkstraUnused
    /\ CallsUnused
    /\ ClockUnused
    /\ \E w \in InitialPopulations : \E v \in [1..Len(w.people) -> StatusSet] :
           /\ disease = w.disease
           /\ people = [i \in 1..Len(w.people) |-> [w.people[i] EXCEPT !.status = v[i]]]
           /\ occupants = w.occupants
           /\ route_intersections = w.route_intersections
    /\ trial = NoTrial
    /\ active_infections = NotCalled
    /\ last_op = NoOp

\* Population.has_active_infections
HasActiveInfections ==
    /\ active_infections' = [called |-> TRUE, result |-> has_active_infections(people)]
    /\ UNCHANGED <<roadVars, dijkstraVars, callVars, clockVars, disease, people, occupants,
                   route_intersections, trial, last_op>>

ActiveNext == HasActiveInfections

SpecActive == ActiveInit /\ [][ActiveNext]_vars

-----------------------------------------------------------------------------
(* One person on its own: any sequence of start_move_to_office,             *)
(* start_move_to_home and update_position calls on a Person of the towns    *)
(* above, in any status.  people holds this one person.                     *)

MovePeople ==
    UNION {{[w.people[i] EXCEPT !.status = status] : i \in 1..Len(w.people), status \in StatusSet} :
              w \in InitialPopulations \cup Populations(ContactTowns, ContactDisplayWidth)}

MoveInit ==
    /\ RoadUnused
    /\ DijkstraUnused
    /\ CallsUnused
    /\ ClockUnused
    /\ disease \in SimDiseases
    /\ \E p \in MovePeople : people = <<p>>
    /\ occupants = <<>>
    /\ route_intersections = <<>>
    /\ trial = NoTrial
    /\ active_infections = NotCalled
    /\ last_op = NoOp

\* Person.start_move_to_office
MoveToOffice == people' = <<start_move_to_office(people[1])>>

\* Person.start_move_to_home
MoveToHome == people' = <<start_move_to_home(people[1])>>

\* Person.update_position, called for every person in every frame
UpdatePosition == people' = <<update_position(people[1])>>

MoveNext ==
    /\ MoveToOffice \/ MoveToHome \/ UpdatePosition
    /\ UNCHANGED <<roadVars, dijkstraVars, callVars, clockVars, disease, occupants, route_intersections,
                   trial, active_infections, last_op>>

SpecMove == MoveInit /\ [][MoveNext]_vars

\* the main loop calls update_positions in every iteration (main.py:160), so a
\* person whom update_position moves is moved
SpecMoveFair == SpecMove /\ WF_people(UpdatePosition)

-----------------------------------------------------------------------------
(* The segment-crossing test on its own: __do_edges_cross called once on    *)
(* four points of a small grid.                                             *)

\* the largest coordinate of the points the crossing test is called on
CrossMax == 2

CrossPoints == (0..CrossMax) \X (0..CrossMax)

CrossInit ==
    /\ RoadUnused
    /\ DijkstraUnused
    /\ PopulationUnused
    /\ ClockUnused
    /\ cross_call \in [a1 : CrossPoints, a2 : CrossPoints, b1 : CrossPoints, b2 : CrossPoints,
                       called : {FALSE}, result : {FALSE}]
    /\ find_call = NoFind
    /\ pq_call = NoPop

\* AdditionalConnections.__do_edges_cross(a1, a2, b1, b2)
DoEdgesCross ==
    /\ ~cross_call.called
    /\ cross_call' = [cross_call EXCEPT
                         !.called = TRUE,
                         !.result = do_edges_cross(cross_call.a1, cross_call.a2,
                                                   cross_call.b1, cross_call.b2)]
    /\ UNCHANGED <<roadVars, dijkstraVars, populationVars, find_call, pq_call, clockVars>>

CrossNext == DoEdgesCross

SpecCross == CrossInit /\ [][CrossNext]_vars

-----------------------------------------------------------------------------
(* The disjoint-set forest on its own: the sets __kruskal makes, then any   *)
(* sequence of __find calls and of the unions __kruskal performs (it calls  *)
(* __union only for two nodes whose roots differ).                          *)

ForestNodes == {<<i, 0>> : i \in 0..(MaxNodes - 1)}

\* the ranks of the model stay below MaxRank + 1
MaxRank == 3

ForestInit ==
    /\ map_array = {}
    /\ additional_roads = None
    /\ graph = EmptyDict
    /\ edges = <<>>
    /\ parent = [n \in ForestNodes |-> n]
    /\ rank = [n \in ForestNodes |-> 0]
    /\ mst = EmptyDict
    /\ edge_index = 0
    /\ single_connection_nodes = <<>>
    /\ leaf_index = 0
    /\ distance = None
    /\ input_mst = EmptyDict
    /\ added = <<>>
    /\ road_pc = "kruskal"
    /\ DijkstraUnused
    /\ PopulationUnused
    /\ CallsUnused
    /\ ClockUnused

\* MST.__find(node)
Find(node) ==
    /\ parent' = find(parent, node)
    /\ find_call' = [node |-> node, result |-> FindRoot(parent, node), before |-> parent]
    /\ UNCHANGED rank

\* "if self.__find(node1) != self.__find(node2): self.__union(node1, node2)";
\* find_call holds a call of __find only until the forest changes again
Union(node1, node2) ==
    LET p1 == find(parent, node1)
        p2 == find(p1, node2)
    IN  /\ FindRoot(parent, node1) # FindRoot(p1, node2)
        /\ \E u \in {union(p2, rank, node1, node2)} :
               /\ parent' = u.parent
               /\ rank' = u.rank
        /\ find_call' = NoFind

\* self.__union(node1, node2) called on two nodes of one set (a call __kruskal
\* does not make: line 161 lets it union only nodes whose roots differ)
UnionInSameSet(node1, node2) ==
    /\ FindRoot(parent, node1) = FindRoot(parent, node2)
    /\ rank[FindRoot(parent, node1)] < MaxRank
    /\ \E u \in {union(parent, rank, node1, node2)} :
           /\ parent' = u.parent
           /\ rank' = u.rank
    /\ find_call' = NoFind

ForestNext ==
    /\ \/ \E node \in ForestNodes : Find(node)
       \/ \E node1 \in ForestNodes : \E node2 \in ForestNodes : Union(node1, node2)
       \/ \E node1 \in ForestNodes : \E node2 \in ForestNodes : UnionInSameSet(node1, node2)
    /\ UNCHANGED <<map_array, additional_roads, graph, edges, mst, edge_index,
                   single_connection_nodes, leaf_index, distance, input_mst, added, road_pc,
                   dijkstraVars, populationVars, cross_call, pq_call, clockVars>>

SpecForest == ForestInit /\ [][ForestNext]_vars

-----------------------------------------------------------------------------
(* The priority queue on its own: any sequence of insert_item and pop_item  *)
(* calls on one PriorityQueue.                                              *)

\* the priorities inserted are 1..MaxPriority, the queue holds at most
\* MaxQueueLen elements
MaxPriority == 2
MaxQueueLen == 7

\* PriorityQueue.insert_item(item, priority); the item is the node (priority, 0)
InsertItem(priority) ==
    /\ Len(dj_queue) < MaxQueueLen
    /\ dj_queue' = insert_item(dj_queue, <<priority, 0>>, priority)
    /\ UNCHANGED pq_call

\* PriorityQueue.pop_item() on a non-empty queue
PopItem ==
    /\ ~is_empty(dj_queue)
    /\ \E r \in {pop_item(dj_queue)} :
           /\ dj_queue' = r.elements
           /\ pq_call' = [priority |-> (CHOOSE e \in Range(dj_queue) : e[2] = r.item)[1],
                          before   |-> dj_queue]

QueueInit ==
    /\ RoadUnused
    /\ DijkstraUnused
    /\ PopulationUnused
    /\ CallsUnused
    /\ ClockUnused

QueueNext ==
    /\ \/ \E priority \in 1..MaxPriority : InsertItem(priority)
       \/ PopItem
    /\ UNCHANGED <<roadVars, dj_graph, dj_distances, dj_previous, dj_call, populationVars,
                   cross_call, find_call, clockVars>>

SpecQueue == QueueInit /\ [][QueueNext]_vars

-----------------------------------------------------------------------------
(* Properties of the road network                                          *)

\* the undirected edges of a dict, as sets of endpoints
UEdges(m) == UNION {{{m.keys[i], m.adj[m.keys[i]][k][1]} : k \in 1..Len(m.adj[m.keys[i]])} :
                    i \in 1..Len(m.keys)}

RECURSIVE SumLens(_, _)
\* the number of adjacency entries of a dict (each undirected edge has two)
SumLens(m, i) == IF i > Len(m.keys) THEN 0 ELSE Len(m.adj[m.keys[i]]) + SumLens(m, i + 1)

RECURSIVE SumSeqWeights(_, _)
SumSeqWeights(l, k) == IF k > Len(l) THEN 0 ELSE l[k][2] + SumSeqWeights(l, k + 1)

RECURSIVE SumEntryWeights(_, _)
\* the sum of the weights of all adjacency entries of a dict
SumEntryWeights(m, i) ==
    IF i > Len(m.keys) THEN 0 ELSE SumSeqWeights(m.adj[m.keys[i]], 1) + SumEntryWeights(m, i + 1)

RECURSIVE ReachFrom(_, _)
\* the nodes connected to the set R by the undirected edges T
ReachFrom(R, T) ==
    LET R2 == R \cup UNION {e \in T : e \cap R # {}}
    IN  IF R2 = R THEN R ELSE ReachFrom(R2, T)

RECURSIVE FloorWeightSum(_)
\* total of floor(Euclidean distance) over a set of undirected edges
FloorWeightSum(T) ==
    IF T = {} THEN 0
    ELSE LET e == CHOOSE x \in T : TRUE
             u == CHOOSE x \in e : TRUE
             v == CHOOSE x \in e : x # u
         IN  Isqrt(Dist2(u, v)) + FloorWeightSum(T \ {e})

\* all spanning trees of the complete graph on the node set V
SpanningTrees(V) ==
    LET all == {{u, v} : u \in V, v \in V} \ {{u} : u \in V}
    IN  {T \in SUBSET all : Cardinality(T) = Cardinality(V) - 1
                            /\ ReachFrom({CHOOSE x \in V : TRUE}, T) = V}

\* __kruskal has returned and mst holds its result
KruskalReturned == road_pc = "add_connections" \/ (road_pc = "done" /\ additional_roads = FALSE)

\* the four cells of the unit square
UnitSquare == {<<0, 0>>, <<0, 1>>, <<1, 0>>, <<1, 1>>}

\* C1: for N >= 2 distinct building nodes the graph Kruskal returns has exactly
\* N-1 undirected edges, has no cycle and connects all N input nodes.
C1_KruskalSpanningTree ==
    KruskalReturned =>
        LET V  == Range(graph.keys)
            UE == UEdges(mst)
        IN  /\ Cardinality(V) = Cardinality(map_array)
            /\ SumLens(mst, 1) = 2 * (Cardinality(V) - 1)
            /\ Cardinality(UE) = Cardinality(V) - 1
            /\ \A e \in UE : Cardinality(e) = 2 /\ e \subseteq V
            /\ \A v \in V : ReachFrom({v}, UE) = V
            /\ \A e \in UE : \A u \in e : ~(e \subseteq ReachFrom({u}, UE \ {e}))

C1_Witness ==
    /\ KruskalReturned
    /\ additional_roads = FALSE
    /\ Cardinality(map_array) >= 4
    /\ \E n \in Range(mst.keys) : Len(mst.adj[n]) >= 2

\* C2: the tree Kruskal returns has minimum total weight (floor of the Euclidean
\* distance) among all spanning trees of the complete graph on the nodes; for the
\* unit square the complete graph has 6 undirected edges and the tree has 3 edges
\* of total weight 3.
C2_KruskalMinimumWeight ==
    KruskalReturned =>
        LET V == Range(graph.keys)
        IN  /\ \A T \in SpanningTrees(V) : SumEntryWeights(mst, 1) <= 2 * FloorWeightSum(T)
            /\ UEdges(mst) \in SpanningTrees(V)
            /\ SumEntryWeights(mst, 1) = 2 * FloorWeightSum(UEdges(mst))
            /\ map_array = UnitSquare =>
                   /\ Len(edges) = 2 * 6
                   /\ Cardinality({{edges[i][2], edges[i][3]} : i \in 1..Len(edges)}) = 6
                   /\ Cardinality(UEdges(mst)) = 3
                   /\ SumEntryWeights(mst, 1) = 2 * 3

C2_Witness ==
    /\ KruskalReturned
    /\ map_array = UnitSquare
    /\ SumEntryWeights(mst, 1) = 6

\* the node has exactly one connection in the tree Kruskal returned
IsLeafOfInputMST(n) == DictHas(input_mst, n) /\ Len(input_mst.adj[n]) = 1

\* C9: every edge added by add_connections joins two distinct leaves of the input
\* MST whose Euclidean distance is strictly greater than the threshold and whose
\* segment crosses, by the segment-crossing test, no edge present in the network
\* when it is added; nodes that are not leaves of the input MST receive no edge.
C9_AddedEdgesJoinFarNonCrossingLeaves ==
    /\ \A i \in 1..Len(added) :
          LET a == added[i]
          IN  /\ a.node # a.nearest_node
              /\ IsLeafOfInputMST(a.node)
              /\ IsLeafOfInputMST(a.nearest_node)
              /\ Dist2(a.node, a.nearest_node) > min_distance * min_distance
              /\ \A e \in UEdges(a.before) : \A u \in e : \A v \in e \ {u} :
                     ~do_edges_cross(u, v, a.node, a.nearest_node)
    /\ road_pc \in {"connect", "done"} /\ additional_roads = TRUE =>
          \A n \in Range(graph.keys) :
              ~IsLeafOfInputMST(n) => DictHas(input_mst, n) /\ mst.adj[n] = input_mst.adj[n]

C9_Witness ==
    /\ road_pc = "done"
    /\ Len(added) >= 1
    /\ \E n \in Range(graph.keys) : ~IsLeafOfInputMST(n)
    /\ \E i \in 1..Len(added) : \E n \in Range(graph.keys) :
          /\ IsLeafOfInputMST(n)
          /\ n # added[i].node
          /\ crosses_existing_edges(added[i].before, added[i].node, n)

\* C10 as stated: every edge added by add_connections is stored on both endpoints
\* with a weight equal to the Euclidean distance between its own two endpoints.
C10_AddedWeightIsEuclideanDistance ==
    \A i \in 1..Len(added) :
        LET a == added[i]
        IN  /\ Contains(mst.adj[a.node], <<a.nearest_node, a.weight>>)
            /\ Contains(mst.adj[a.nearest_node], <<a.node, a.weight>>)
            /\ a.weight * a.weight = Dist2(a.node, a.nearest_node)

-----------------------------------------------------------------------------
(* Properties of the shortest paths                                        *)

\* the weights of the entries of g that lead from u to v
StepWeights(g, u, v) ==
    IF DictHas(g, u) THEN {g.adj[u][k][2] : k \in {j \in 1..Len(g.adj[u]) : g.adj[u][j][1] = v}}
    ELSE {}

RECURSIVE PathSums(_, _, _)
\* the totals obtainable by choosing one entry of g for every step of path[i..]
PathSums(g, path, i) ==
    IF i >= Len(path) THEN {0}
    ELSE {w + rest : w \in StepWeights(g, path[i], path[i + 1]), rest \in PathSums(g, path, i + 1)}

RECURSIVE SimplePathTotals(_, _, _, _)
\* reference: the total weights of all simple paths of g from cur to target that
\* avoid the nodes in visited
SimplePathTotals(g, cur, target, visited) ==
    IF cur = target THEN {0}
    ELSE IF ~DictHas(g, cur) THEN {}
    ELSE UNION {{g.adj[cur][k][2] + rest :
                    rest \in SimplePathTotals(g, g.adj[cur][k][1], target,
                                              visited \cup {g.adj[cur][k][1]})} :
                k \in {j \in 1..Len(g.adj[cur]) : g.adj[cur][j][1] \notin visited}}

\* end can be reached from start along edges of g
Reachable(g, start, end) == start = end \/ end \in ReachFrom({start}, UEdges(g))

\* a compute call has returned or raised
Computed == dj_call.start # None

\* C3: for start and end in the network with end reachable from start, compute
\* returns a path from start to end along network edges, and the returned weight
\* is both the sum of the edge weights along the path and the least total weight
\* of any path from start to end.
C3_ComputeReturnsShortestPath ==
    Computed /\ DictHas(dj_graph, dj_call.start) /\ DictHas(dj_graph, dj_call.end)
             /\ Reachable(dj_graph, dj_call.start, dj_call.end) =>
        LET path   == dj_call.path
            totals == SimplePathTotals(dj_graph, dj_call.start, dj_call.end, {dj_call.start})
        IN  /\ ~dj_call.raised
            /\ Len(path) >= 1
            /\ path[1] = dj_call.start
            /\ path[Len(path)] = dj_call.end
            /\ \A i \in 1..(Len(path) - 1) : StepWeights(dj_graph, path[i], path[i + 1]) # {}
            /\ dj_call.weight \in PathSums(dj_graph, path, 1)
            /\ dj_call.weight \in totals
            /\ \A t \in totals : dj_call.weight <= t

C3_Witness ==
    /\ Computed
    /\ DictHas(dj_graph, dj_call.start) /\ DictHas(dj_graph, dj_call.end)
    /\ Len(dj_call.path) >= 3
    /\ \E t \in SimplePathTotals(dj_graph, dj_call.start, dj_call.end, {dj_call.start}) :
           t > dj_call.weight

\* C4 as stated: compute for an end node that is not reachable from start returns
\* an empty path and infinite weight and raises no error.
C4_UnreachableReturnsEmptyInf ==
    Computed /\ ~Reachable(dj_graph, dj_call.start, dj_call.end) =>
        /\ ~dj_call.raised
        /\ dj_call.path = <<>>
        /\ dj_call.weight = Inf

-----------------------------------------------------------------------------
(* Properties of the disease trials                                        *)

\* the daily rate, in thousandths, the last trial compared its draw with
TrialRate ==
    CASE trial.kind = "infect"  -> disease.infection_rate
      [] trial.kind = "recover" -> disease.recovery_rate
      [] trial.kind = "die"     -> disease.mortality_rate

\* C8 as stated: every trial draws d from 0..999 and succeeds iff d is below
\* the hourly probability times 1000, so a trial with hourly probability 1
\* succeeds for every draw and a trial with probability 0 for none.
C8_TrialDrawsBelow1000 ==
    trial.kind # "none" =>
        /\ trial.draw \in 0..999
        /\ trial.result <=> (24 * trial.draw < TrialRate)
        /\ TrialRate = 24000 => trial.result
        /\ TrialRate = 0 => ~trial.result

-----------------------------------------------------------------------------
(* Properties of the population                                            *)

\* the transitions of the SEIRD model
AllowedTransitions == {<<"S", "E">>, <<"E", "I">>, <<"I", "R">>, <<"I", "D">>}

\* every assignment to a status the last operation made is a transition of the model
AssignmentsAllowed ==
    \A k \in 1..Len(last_op.assignments) :
        <<last_op.assignments[k].from, last_op.assignments[k].to>> \in AllowedTransitions

\* the assignments of a history that were made to person_id, in order
AssignmentsTo(h, person_id) == SelectSeq(h.assignments, LAMBDA a : a.person = person_id)

\* a step changes a status only through the assignments its history lists, and
\* changes no status that is R or D
StatusStep ==
    \A i \in 1..Len(people) :
        LET c == AssignmentsTo(last_op', people[i].person_id)
        IN  /\ people[i].status \in {"R", "D"} => people'[i].status = people[i].status
            /\ c = <<>> => people'[i].status = people[i].status
            /\ c # <<>> => /\ c[1].from = people[i].status
                           /\ c[Len(c)].to = people'[i].status
                           /\ \A k \in 1..(Len(c) - 1) : c[k].to = c[k + 1].from

\* C5: under any sequence of ticks, hourly updates and move commands every
\* change of a person's status is one of S->E, E->I, I->R, I->D (a single
\* operation may make two of them in a row), and the status of a person who is
\* R or D never changes again.
C5_StatusChangesAlongSEIRD == []AssignmentsAllowed /\ [][StatusStep]_vars

C5_Witness ==
    /\ \E k \in 1..Len(last_op.assignments) : \E l \in (k + 1)..Len(last_op.assignments) :
          /\ last_op.assignments[k].from = "S" /\ last_op.assignments[k].to = "E"
          /\ last_op.assignments[l].from = "E" /\ last_op.assignments[l].to = "I"
          /\ last_op.assignments[l].person = last_op.assignments[k].person
    /\ \E k \in 1..Len(last_op.assignments) : last_op.assignments[k].to = "D"
    /\ \E i \in 1..Len(people) : people[i].status = "D"

\* C6: has_active_infections returns false exactly when no person is in state
\* E or I, and true otherwise; it returns false when every person is in state S.
C6_HasActiveInfections ==
    active_infections.called =>
        /\ active_infections.result <=> (\E i \in 1..Len(people) : people[i].status \in {"E", "I"})
        /\ (\A i \in 1..Len(people) : people[i].status = "S") => ~active_infections.result

C6_Witness ==
    /\ active_infections.called
    /\ Len(people) >= 2
    /\ \A i \in 1..Len(people) : people[i].status = "S"
    /\ ~active_infections.result

\* the disease was built with recovery_rate = 1.0 and mortality_rate = 0.0
RecoveryOneMortalityZero == disease.recovery_rate = 1000 /\ disease.mortality_rate = 0

\* the step is an hourly update that found a person in state I (only
\* update_infection_status calls recover)
HourlyUpdateWithInfected == last_op'.recover_draws # <<>>

\* C7 as stated: a person in state I whose disease has recovery_rate = 1.0 and
\* mortality_rate = 0.0 is in state R after the next hourly update, whatever
\* was drawn.
C7_RecoversAtNextHourlyUpdate ==
    [][RecoveryOneMortalityZero /\ HourlyUpdateWithInfected =>
           \A i \in 1..Len(people) : people[i].status = "I" => people'[i].status = "R"]_vars

\* C7, amended: such a person is in state R after the next hourly update
\* exactly when the number drawn by its recover trial is below 1000 / 24 (0 to
\* 41), and is still in state I otherwise.
C7_RecoversWhenDrawBelowHourlyRate ==
    [][RecoveryOneMortalityZero /\ HourlyUpdateWithInfected =>
           \A i \in 1..Len(people) :
               people[i].status = "I" =>
                   LET r == SelectSeq(last_op'.recover_draws,
                                      LAMBDA e : e.person = people[i].person_id)
                   IN  /\ Len(r) = 1
                       /\ people'[i].status = IF r[1].draw <= 41 THEN "R" ELSE "I"]_vars

C7_Witness ==
    /\ RecoveryOneMortalityZero
    /\ \E k \in 1..Len(last_op.recover_draws) :
          /\ last_op.recover_draws[k].draw = 41
          /\ people[last_op.recover_draws[k].person + 1].status = "R"
    /\ \E k \in 1..Len(last_op.recover_draws) :
          /\ last_op.recover_draws[k].draw = 1000
          /\ people[last_op.recover_draws[k].person + 1].status = "I"

-----------------------------------------------------------------------------
(* Further properties of the road network                                  *)

\* C11 as stated: after add_connections every node that was a leaf of the input
\* MST has gained at most one extra edge.
C11_LeafGainsAtMostOneEdge ==
    road_pc = "done" /\ additional_roads = TRUE =>
        \A n \in Range(input_mst.keys) :
            IsLeafOfInputMST(n) => Len(mst.adj[n]) <= Len(input_mst.adj[n]) + 1

\* the other leaves that qualify for the leaf: Euclidean distance strictly
\* greater than the threshold, and the segment crosses no edge of the input MST
QualifyingLeaves(leaf) ==
    SelectSeq(single_connection_nodes,
              LAMBDA o : /\ o # leaf
                         /\ Dist2(leaf, o) > min_distance * min_distance
                         /\ ~crosses_existing_edges(input_mst, leaf, o))

\* the step is one iteration of the outer loop of add_connections
ScansLeaf == road_pc = "connect" /\ leaf_index' = leaf_index + 1

\* the step appends an edge between the leaf and the other node, on both of them
AddsEdge(leaf, other) ==
    LET l == mst'.adj[leaf]
    IN  /\ Len(l) = Len(mst.adj[leaf]) + 1
        /\ l[Len(l)][1] = other
        /\ mst' = append_connection(mst, leaf, other, l[Len(l)][2])

\* C12 as stated: for each leaf of the input MST, when at least one other leaf
\* qualifies (Euclidean distance strictly greater than the threshold, segment
\* crossing no edge of the MST) add_connections adds an edge from the leaf to
\* the last qualifying leaf in collection order, and when none qualifies it
\* adds no edge from the leaf.
C12_EdgeToLastQualifyingLeaf ==
    [][ScansLeaf =>
          LET leaf == single_connection_nodes[leaf_index]
              q    == QualifyingLeaves(leaf)
          IN  IF q # <<>> THEN AddsEdge(leaf, q[Len(q)]) ELSE mst' = mst]_vars

\* C13: in the network get_mst returns, with or without additional roads,
\* whenever (v, w) is in the adjacency list of u, (u, w) with the same weight w
\* is in the adjacency list of v.
C13_AdjacencySymmetric ==
    road_pc = "done" =>
        \A i \in 1..Len(mst.keys) :
            LET u == mst.keys[i]
            IN  \A k \in 1..Len(mst.adj[u]) :
                    LET v == mst.adj[u][k][1]
                        w == mst.adj[u][k][2]
                    IN  DictHas(mst, v) /\ Contains(mst.adj[v], <<u, w>>)

C13_Witness ==
    /\ road_pc = "done"
    /\ additional_roads = TRUE
    /\ Len(added) >= 1
    /\ \E i \in 1..Len(added) :
          added[i].weight * added[i].weight # Dist2(added[i].node, added[i].nearest_node)

\* the 2D cross product (p3.y - p1.y)(p2.x - p1.x) - (p2.y - p1.y)(p3.x - p1.x)
CrossProduct(p1, p2, p3) ==
    (p3[2] - p1[2]) * (p2[1] - p1[1]) - (p2[2] - p1[2]) * (p3[1] - p1[1])

\* the orientation of three points: anticlockwise (positive cross product) or not
Orientation(p1, p2, p3) == CrossProduct(p1, p2, p3) > 0

\* C14: the segment-crossing test reports crossing for (a1, a2), (b1, b2) iff the
\* orientation of (a1, b1, b2) differs from that of (a2, b1, b2) and the
\* orientation of (a1, a2, b1) differs from that of (a1, a2, b2), orientation
\* being anticlockwise-or-not by the sign of the cross product; it reports true
\* for the X (0,0)-(2,2), (0,2)-(2,0) and false for the parallel segments
\* (0,0)-(1,0), (0,1)-(1,1).
C14_CrossingTest ==
    cross_call.called =>
        LET a1 == cross_call.a1
            a2 == cross_call.a2
            b1 == cross_call.b1
            b2 == cross_call.b2
        IN  /\ cross_call.result <=>
                   (/\ Orientation(a1, b1, b2) # Orientation(a2, b1, b2)
                    /\ Orientation(a1, a2, b1) # Orientation(a1, a2, b2))
            /\ <<a1, a2, b1, b2>> = <<<<0, 0>>, <<2, 2>>, <<0, 2>>, <<2, 0>>>> => cross_call.result
            /\ <<a1, a2, b1, b2>> = <<<<0, 0>>, <<1, 0>>, <<0, 1>>, <<1, 1>>>> => ~cross_call.result

C14_Witness ==
    /\ cross_call.called
    /\ <<cross_call.a1, cross_call.a2, cross_call.b1, cross_call.b2>>
           = <<<<0, 0>>, <<2, 2>>, <<0, 2>>, <<2, 0>>>>
    /\ cross_call.result

-----------------------------------------------------------------------------
(* Properties of the disjoint-set forest                                   *)

RECURSIVE Up(_, _, _)
\* the node reached from n by following k parent pointers
Up(par, n, k) == IF k = 0 THEN n ELSE Up(par, par[n], k - 1)

\* the nodes on the parent path of n, from n to the end of the path
ParentPath(par, n) == {Up(par, n, k) : k \in 0..Cardinality(DOMAIN par)}

\* following parent pointers from any node ends at a node that is its own parent
NoParentCycle(par) ==
    \A n \in DOMAIN par :
        LET top == Up(par, n, Cardinality(DOMAIN par)) IN par[top] = top

\* C16: after any sequence of unions, find(x) returns the root of the set of x (a
\* node that is its own parent), a second find(x) returns the same node, every
\* node on the traversed parent path points directly at that root after the
\* call, and parent pointers never form a cycle other than the self-loop of a
\* root.
C16_FindReturnsRootAndCompresses ==
    /\ NoParentCycle(parent)
    /\ find_call.node # None =>
          LET x    == find_call.node
              root == find_call.result
          IN  /\ parent[root] = root
              /\ root \in ParentPath(find_call.before, x)
              /\ find_call.before[root] = root
              /\ FindRoot(parent, x) = root
              /\ find(parent, x) = parent
              /\ \A n \in ParentPath(find_call.before, x) : parent[n] = root

C16_Witness ==
    /\ find_call.node # None
    /\ find_call.before[find_call.before[find_call.node]] # find_call.before[find_call.node]
    /\ parent[find_call.node] = find_call.result

-----------------------------------------------------------------------------
(* Properties of the priority queue                                        *)

\* C17 as stated: pop_item on a non-empty queue, after any sequence of
\* insert_item and pop_item calls, returns an item whose priority is minimal
\* among all items in the queue.
C17_PopReturnsMinimum ==
    pq_call.before # <<>> =>
        \A k \in 1..Len(pq_call.before) : ~NumLess(pq_call.before[k][1], pq_call.priority)

-----------------------------------------------------------------------------
(* Further properties of the population                                    *)

\* a step leaves every person who is D where the person is, not moving
DeceasedStay ==
    \A i \in 1..Len(people) :
        people[i].status = "D" =>
            /\ people'[i].current_position = people[i].current_position
            /\ ~people'[i].moving

\* C15: once a person is in state D, no tick, hourly update or move command
\* changes the person's position, and the movement flag is false after every
\* subsequent operation.
C15_DeceasedNeverMove == [][DeceasedStay]_vars

C15_Witness ==
    /\ \E i \in 1..Len(people) :
          /\ people[i].status = "D"
          /\ people[i].current_position # people[i].home_position
          /\ people[i].current_position # people[i].office_position
          /\ people[i].route # None
          /\ ~people[i].moving
    /\ \A k \in 1..Len(last_op.assignments) : last_op.assignments[k].to # "D"

\* C18 as stated: every distance test of a tick read the positions both people
\* have after the tick has moved them.
C18_TestsUsePostMovePositions ==
    \A k \in 1..Len(last_op.tests) :
        LET t == last_op.tests[k]
        IN  /\ t.position = people[t.person + 1].current_position
            /\ t.other_position = people[t.other + 1].current_position

\* the two people are, in the state, at their own interior positions in one building
InSameBuildingNow(p, q) ==
    \/ /\ p.current_position = p.home_position
       /\ q.current_position = q.home_position
       /\ p.home_location = q.home_location
    \/ /\ p.current_position = p.office_position
       /\ q.current_position = q.office_position
       /\ p.office_location = q.office_location

\* the exposures of an hourly update (a tick that exposes somebody has made a
\* distance test, the move commands expose nobody): each exposed person was in
\* the building of a person in state I when the update started
BuildingExposuresAmongPresent ==
    last_op'.tests = <<>> =>
        \A k \in 1..Len(last_op'.assignments) :
            LET a == last_op'.assignments[k]
            IN  a.from = "S" /\ a.to = "E" =>
                    \E i \in 1..Len(people) :
                        /\ people[i].status = "I"
                        /\ InSameBuildingNow(people[i], people[a.person + 1])

\* C19 as stated: in an hourly update building contact exposes only susceptible
\* people who are at that moment at their own interior position in the building
\* an infectious person is in; an infectious person at neither the home nor the
\* office position exposes nobody.
C19_BuildingContactAmongPresent == [][BuildingExposuresAmongPresent]_vars

\* the radius __check_interactions took for a test: that of the tester at the
\* position the test read
TestRadius(t) == get_radius([people[t.person + 1] EXCEPT !.current_position = t.position])

\* the tests of the last operation that exposed the person tested
Exposures == SelectSeq(last_op.tests, LAMBDA t : t.exposed)

\* C20: in a tick a person is exposed by proximity contact only if the person is
\* in state S, is in the candidate-contact list of a person in state I, is at
\* distance <= 2 x that person's radius from it (by the positions the test
\* read), and the one infection trial rolled for the pair succeeded; people in
\* state E, R or D expose nobody.
C20_ProximityExposure ==
    /\ \A k \in 1..Len(last_op.tests) :
          LET t == last_op.tests[k]
          IN  /\ t.status = "I"
              /\ Contains(route_intersections[t.person], t.other)
              /\ t.exposed => t.rolled
              /\ t.rolled => Dist2(t.position, t.other_position)
                                 <= (2 * TestRadius(t)) * (2 * TestRadius(t))
              /\ \A l \in 1..Len(last_op.tests) :
                     l # k => <<last_op.tests[l].person, last_op.tests[l].other>> # <<t.person, t.other>>
    /\ last_op.tests # <<>> =>
          last_op.assignments = [k \in 1..Len(Exposures) |->
                                    [person |-> Exposures[k].other, from |-> "S", to |-> "E"]]

C20_Witness ==
    \E k \in 1..Len(last_op.tests) :
        LET t == last_op.tests[k]
        IN  /\ t.exposed
            /\ t.position # people[t.person + 1].home_position
            /\ t.position # people[t.person + 1].office_position
            /\ people[t.other + 1].status = "E"

-----------------------------------------------------------------------------
(* The adjacency lists of the returned network                             *)

\* the neighbour nodes of an adjacency list are pairwise different
NeighboursDistinct(l) == \A k \in 1..Len(l) : \A j \in 1..Len(l) : k # j => l[k][1] # l[j][1]

\* C30 as stated: in every adjacency list returned by get_mst, with or without
\* additional roads, each neighbour node appears at most once.
C30_NoEdgeTwice ==
    road_pc = "done" => \A i \in 1..Len(mst.keys) : NeighboursDistinct(mst.adj[mst.keys[i]])

-----------------------------------------------------------------------------
(* The order in which __kruskal processes the edges                        *)

\* the place of an edge in a list of pairwise different edges
IndexOf(s, e) == CHOOSE k \in 1..Len(s) : s[k] = e

\* the list __create_edge_list made: node iteration order, then neighbour order
Enumerated == create_edge_list(graph)

\* the for loop of __kruskal is running or has run: edges is the list it iterates
\* over, one edge per iteration from the first to the last
EdgesSorted == road_pc # "get_mst"

\* C22 as stated: the edges are processed in ascending weight order and, among
\* edges of equal weight, in the order in which they were enumerated.
C22_TiesInEnumerationOrder ==
    EdgesSorted =>
        \A i \in 1..Len(edges) : \A j \in 1..Len(edges) :
            i < j => \/ edges[i][1] < edges[j][1]
                     \/ /\ edges[i][1] = edges[j][1]
                        /\ IndexOf(Enumerated, edges[i]) < IndexOf(Enumerated, edges[j])

\* node a = (x, y) comes before node b: smaller x, or equal x and smaller y
NodeBefore(a, b) == a[1] < b[1] \/ (a[1] = b[1] /\ a[2] < b[2])

\* C22 amended: the list __kruskal iterates over holds the enumerated edges, each
\* once, in ascending weight order and, among edges of equal weight, in
\* ascending order of the first node (x, then y), then of the second node.
C22_TiesInNodeOrder ==
    EdgesSorted =>
        /\ Len(edges) = Len(Enumerated)
        /\ Range(edges) = Range(Enumerated)
        /\ \A i \in 1..Len(edges) : \A j \in 1..Len(edges) :
              i < j => \/ edges[i][1] < edges[j][1]
                       \/ /\ edges[i][1] = edges[j][1]
                          /\ \/ NodeBefore(edges[i][2], edges[j][2])
                             \/ edges[i][2] = edges[j][2] /\ NodeBefore(edges[i][3], edges[j][3])

\* the loop has run over a list in which two edges of one weight stand in the
\* reverse of their enumeration order
C22_Witness ==
    /\ road_pc = "kruskal"
    /\ edge_index > Len(edges)
    /\ \E i \in 1..Len(edges) : \E j \in 1..Len(edges) :
          /\ i < j
          /\ edges[i][1] = edges[j][1]
          /\ IndexOf(Enumerated, edges[i]) > IndexOf(Enumerated, edges[j])

-----------------------------------------------------------------------------
(* __union on two nodes of one set                                         *)

\* C21 as stated: union(a, b) on two nodes that are already in the same set
\* changes no parent pointer and no rank.
C21_UnionInSameSetIsNoOp ==
    [][(\E node1 \in ForestNodes : \E node2 \in ForestNodes : UnionInSameSet(node1, node2))
          => parent' = parent /\ rank' = rank]_vars

-----------------------------------------------------------------------------
(* compute on a used instance and on a new one                             *)

\* the state of an instance on which compute was never called
NewInstance == [distances |-> <<>>, previous |-> <<>>, queue |-> <<>>]

\* C26: for start and end nodes of the road network, compute(start, end) on an
\* instance that has answered any sequence of earlier queries (nodes outside
\* the network included) returns the path and the weight a new instance
\* returns, and leaves the queue empty.
C26_ComputeRetainsNoState ==
    Computed /\ DictHas(dj_graph, dj_call.start) /\ DictHas(dj_graph, dj_call.end) =>
        LET new == compute(dj_graph, NewInstance, dj_call.start, dj_call.end)
        IN  /\ dj_call.path = new.path
            /\ dj_call.weight = new.weight
            /\ dj_call.raised = new.raised
            /\ dj_queue = <<>>

\* a query between two different nodes of the network answered by an instance
\* that still holds the distance of an earlier query for a node outside it
C26_Witness ==
    /\ Computed
    /\ DictHas(dj_graph, dj_call.start)
    /\ DictHas(dj_graph, dj_call.end)
    /\ Len(dj_call.path) >= 3
    /\ OutsideNode \in DOMAIN dj_distances

-----------------------------------------------------------------------------
(* The hourly update of an infectious person                               *)

\* the trials the step rolled for person_id
TrialsOf(person_id) == SelectSeq(last_op'.recover_draws, LAMBDA e : e.person = person_id)

\* C23: in one hourly update a person in state I has its recover trial rolled
\* first; when it succeeds the person becomes R and no die trial is rolled;
\* only when it fails is the die trial rolled, and on its success the person
\* becomes D and stops moving; when both fail the person stays I.  No person
\* is assigned both R and D, and no trial is rolled for a person not in I.
C23_RecoverBeforeDie ==
    [][HourlyUpdateWithInfected =>
          \A i \in 1..Len(people) :
              LET r == TrialsOf(people[i].person_id)
                  c == AssignmentsTo(last_op', people[i].person_id)
              IN  IF people[i].status = "I"
                  THEN /\ Len(r) = 1
                       /\ IF 24 * r[1].draw < disease.recovery_rate
                          THEN /\ r[1].die = "not rolled"
                               /\ c = <<[person |-> people[i].person_id, from |-> "I", to |-> "R"]>>
                               /\ people'[i] = [people[i] EXCEPT !.status = "R"]
                          ELSE /\ r[1].die \in {"failed", "succeeded"}
                               /\ r[1].die = "succeeded" =>
                                     /\ disease.mortality_rate > 0
                                     /\ c = <<[person |-> people[i].person_id,
                                               from |-> "I", to |-> "D"]>>
                                     /\ people'[i] = [people[i] EXCEPT !.status = "D",
                                                                       !.moving = FALSE]
                               /\ r[1].die = "failed" => c = <<>> /\ people'[i] = people[i]
                  ELSE /\ r = <<>>
                       /\ \A k \in 1..Len(c) : c[k].to \notin {"R", "D"}]_vars

\* an hourly update in which one person recovered without a die trial and
\* another, on its way, failed to recover and died
C23_Witness ==
    /\ \E k \in 1..Len(last_op.recover_draws) :
          /\ last_op.recover_draws[k].die = "succeeded"
          /\ people[last_op.recover_draws[k].person + 1].status = "D"
          /\ people[last_op.recover_draws[k].person + 1].route_index >= 1
          /\ people[last_op.recover_draws[k].person + 1].route_index
                 < Len(people[last_op.recover_draws[k].person + 1].route)
    /\ \E k \in 1..Len(last_op.recover_draws) :
          /\ last_op.recover_draws[k].die = "not rolled"
          /\ people[last_op.recover_draws[k].person + 1].status = "R"

-----------------------------------------------------------------------------
(* The incubation of an exposed person                                     *)

\* max(1, ceil(incubation time / seconds per hour)), the incubation time being
\* the one the people are created with (Disease.get_incubation_time)
IncubationUpdates ==
    LET n == (disease.incubation_time + disease.seconds_per_hour - 1) \div disease.seconds_per_hour
    IN  IF n < 1 THEN 1 ELSE n

\* the hourly updates applied to a person since it became E, as its remaining
\* incubation time tells
UpdatesInE(p) == (disease.incubation_time - p.incubation_time) \div p.seconds_per_hour

\* a susceptible person has the whole incubation time left; an exposed person
\* has had fewer than IncubationUpdates updates
Incubating ==
    \A i \in 1..Len(people) :
        /\ people[i].status = "S" => people[i].incubation_time = disease.incubation_time
        /\ people[i].status = "E" =>
              /\ UpdatesInE(people[i]) * people[i].seconds_per_hour
                     = disease.incubation_time - people[i].incubation_time
              /\ UpdatesInE(people[i]) >= 0
              /\ UpdatesInE(people[i]) < IncubationUpdates

\* the person is E when Person.update_infection_status is applied to it in the
\* step: it was E before, or the building contacts of the step exposed it
ExposedAtUpdate(i) ==
    LET c == AssignmentsTo(last_op', people[i].person_id)
    IN  people[i].status = "E" \/ (c # <<>> /\ c[1].to = "E")

\* an hourly update takes seconds_per_hour from the remaining incubation time
\* of every exposed person and of nobody else, and makes the person I exactly
\* when the remainder is <= 0
HourlyIncubationStep ==
    \A i \in 1..Len(people) :
        IF ExposedAtUpdate(i)
        THEN /\ people'[i].incubation_time
                    = people[i].incubation_time - people[i].seconds_per_hour
             /\ people'[i].status = IF people'[i].incubation_time <= 0 THEN "I" ELSE "E"
        ELSE people'[i].incubation_time = people[i].incubation_time

\* the step is an hourly update: with a person in state I it is the step that
\* rolled a recover trial (only update_infection_status calls recover, and it
\* does for every person in I); with no person in I it is a step the action
\* allows
HourlyUpdate ==
    IF \E i \in 1..Len(people) : people[i].status = "I"
    THEN last_op'.recover_draws # <<>>
    ELSE UpdateInfectionStatus

\* in any step: a person who becomes I does so at its update number
\* IncubationUpdates in E, and an exposed person whose remaining time is not
\* changed stays E
IncubationStep ==
    \A i \in 1..Len(people) :
        /\ people[i].status # "I" /\ people'[i].status = "I" =>
              /\ people'[i].incubation_time
                     = people[i].incubation_time - people[i].seconds_per_hour
              /\ UpdatesInE(people'[i]) = IncubationUpdates
        /\ people[i].status = "E" /\ people'[i].incubation_time = people[i].incubation_time =>
              people'[i].status = "E"

\* C24: the remaining incubation time of an exposed person decreases by
\* seconds_per_hour at each hourly update applied to it and the person becomes
\* I at the first such update where the remainder is <= 0: every person who
\* enters E becomes I after exactly max(1, ceil(incubation time / seconds per
\* hour)) hourly updates applied to it while in E, and stays E until then.
C24_IncubationCountdown ==
    /\ []Incubating
    /\ [][IncubationStep]_vars
    /\ [][HourlyUpdate => HourlyIncubationStep]_vars

\* a person exposed on a tick has become I at its second hourly update
C24_Witness ==
    /\ disease.incubation_time = MaxIncubationHours * disease.seconds_per_hour
    /\ \E k \in 1..Len(last_op.assignments) :
          /\ last_op.assignments[k].from = "E"
          /\ last_op.assignments[k].to = "I"
          /\ people[last_op.assignments[k].person + 1].status = "I"
          /\ people[last_op.assignments[k].person + 1].incubation_time = 0
          /\ \A l \in 1..Len(last_op.assignments) :
                last_op.assignments[l].person = last_op.assignments[k].person =>
                    last_op.assignments[l].from = "E"

-----------------------------------------------------------------------------
(* The end of the epidemic                                                 *)

\* no person is in state E or I
NoActiveInfection == \A i \in 1..Len(people) : people[i].status \notin {"E", "I"}

\* C28: a person leaves state S only in a step that began with some person in
\* state I; so once no person is in state E or I, no tick, hourly update (the
\* one Clock.update_time makes when it stops included) or move command assigns
\* or changes a status, and has_active_infections stays false.
C28_NoInfectionIsAbsorbing ==
    /\ [][\A i \in 1..Len(people) :
              people[i].status = "S" /\ people'[i].status # "S" =>
                  \E j \in 1..Len(people) : people[j].status = "I"]_vars
    /\ [][NoActiveInfection =>
              /\ last_op'.assignments = <<>>
              /\ Statuses(people') = Statuses(people)
              /\ ~has_active_infections(people')]_vars

\* the epidemic has ended with a deceased person and has left a susceptible
\* person, who has arrived at the office in an operation that assigned no status
C28_Witness ==
    /\ NoActiveInfection
    /\ last_op.assignments = <<>>
    /\ \E i \in 1..Len(people) : people[i].status = "D"
    /\ \E i \in 1..Len(people) : /\ people[i].status = "S"
                                   /\ people[i].current_position = people[i].office_position

-----------------------------------------------------------------------------
(* The candidate-contact lists                                             *)

\* person j is within 2 x the radius of person i
InContact(i, j) ==
    within_distance(people[i].current_position, people[j].current_position,
                    2 * get_radius(people[i]))

\* C29 as stated: whenever an infectious person and a susceptible person are at
\* Euclidean distance <= 2 x the infectious person's radius, the susceptible
\* person is in the infectious person's candidate-contact list (so the per-tick
\* check, which tests the list only, misses nobody an all-pairs check would
\* test).
C29_CandidatesCoverContacts ==
    \A i \in 1..Len(people) : \A j \in 1..Len(people) :
        i # j /\ people[i].status = "I" /\ people[j].status = "S" /\ InContact(i, j) =>
            Contains(route_intersections[people[i].person_id], people[j].person_id)

-----------------------------------------------------------------------------
(* The walk of a person                                                    *)

\* the one person of the movement specification
Walker == people[1]

\* the person is on its way and alive
Walking == Walker.moving /\ Walker.status # "D" /\ Walker.speed > 0

\* the person has stopped at the last waypoint of its route, the office
\* position on the way to the office and the home position on the way home
Arrived ==
    /\ ~Walker.moving
    /\ Walker.route # None
    /\ Walker.route_index = Len(Walker.route)
    /\ Walker.current_position = Walker.route[Len(Walker.route)]
    /\ Walker.route = Walker.home_to_office_route =>
          Walker.current_position = Walker.office_position
    /\ Walker.route = Walker.office_to_home_route =>
          Walker.current_position = Walker.home_position

\* q is the point at distance speed from p on the straight line from p to n
ExactlySpeedTowards(p, q, n, speed) ==
    /\ Dist2(p, q) = speed * speed
    /\ (q[1] - p[1]) * (n[2] - p[2]) = (q[2] - p[2]) * (n[1] - p[1])
    /\ (q[1] - p[1]) * (n[1] - p[1]) + (q[2] - p[2]) * (n[2] - p[2]) > 0
    /\ Dist2(p, n) >= speed * speed

\* a tick of a walking person: it snaps onto the next waypoint and advances the
\* cursor when the remaining distance is below its speed (the flag is cleared
\* when this was the last waypoint), and moves by exactly its speed towards
\* the waypoint otherwise
WalkStep ==
    LET p    == Walker
        q    == people'[1]
        next == p.route[p.route_index + 1]
    IN  /\ p.route_index < Len(p.route)
        /\ IF Dist2(p.current_position, next) < p.speed * p.speed
           THEN q = [p EXCEPT !.current_position = next,
                              !.route_index = p.route_index + 1,
                              !.moving = p.route_index + 1 < Len(p.route)]
           ELSE /\ q = [p EXCEPT !.current_position = q.current_position]
                /\ ExactlySpeedTowards(p.current_position, q.current_position, next, p.speed)

-----------------------------------------------------------------------------
(* C27: the end of the simulation.                                          *)

\* a step of the loop is its call of update_time
UpdateTimeCalled == main_pc = "update_time" /\ main_pc' = "update_positions"

\* a step of the loop is its call of update_positions, a tick
Ticked == main_pc = "update_positions" /\ main_pc' = "update_time"

\* a step changes neither the hour, nor the day, nor the status of a person
ClockFrozen ==
    /\ clock'.hour = clock.hour
    /\ clock'.day = clock.day
    /\ Len(people') = Len(people)
    /\ \A i \in 1..Len(people) : people'[i].status = people[i].status

\* update_time stops the clock, leaving the hour and the day, at the first
\* call at which nobody is in state E or I, and at no call before
StopsAtFirstCallWithoutInfection ==
    UpdateTimeCalled =>
        IF has_active_infections(people)
        THEN clock'.running
        ELSE clock' = [clock EXCEPT !.running = FALSE]

\* a stopped clock stays stopped, and nothing changes the hour, the day or a
\* status from then on
StoppedForGood == ~clock.running => ~clock'.running /\ ClockFrozen

\* update_time called on a stopped clock changes nothing
LaterCallsChangeNothing ==
    ~clock.running =>
        \A passed \in BOOLEAN :
            update_time(clock, Before, disease, occupants, passed)
                = {[clock |-> clock, st |-> Before]}

\* C27 as stated: update_time stops the clock at the first call at which
\* nobody is in state E or I, without advancing the hour; a stopped clock
\* never runs again, later calls of update_time change neither the hour, nor
\* the day, nor a status, and the loop issues no tick once the clock is
\* stopped.
C27_NoTickAfterStop ==
    /\ [][StopsAtFirstCallWithoutInfection]_vars
    /\ [][StoppedForGood]_vars
    /\ []LaterCallsChangeNothing
    /\ [][~clock.running => ~Ticked]_vars

\* C27, amended: update_time stops the clock at the first call at which
\* nobody is in state E or I, without advancing the hour; a stopped clock
\* never runs again, later calls of update_time change neither the hour, nor
\* the day, nor a status, and the loop issues no tick after the one of the
\* iteration whose update_time stopped the clock, and does nothing else.
C27_OneTickAfterStop ==
    /\ [][StopsAtFirstCallWithoutInfection]_vars
    /\ [][StoppedForGood]_vars
    /\ []LaterCallsChangeNothing
    /\ [][~clock.running => Ticked]_vars

\* the clock is stopped after the hour at which people leave home, the last
\* tick is done, and somebody is on the way or at the office
C27_Witness ==
    /\ main_pc = "update_time"
    /\ ~clock.running
    /\ clock.hour >= 8
    /\ \E i \in 1..Len(people) : people[i].current_position # people[i].home_position

====
